---- MODULE Spec2Model ----
(***************************************************************************)
(* A model of the dependency-resolution engine of the journey builder     *)
(* (graph/dagUtils.ts): getDirectDependencies, getTransitiveDependencies,  *)
(* getAllDependencies, getAllAncestors and topologicalSort.                *)
(*                                                                         *)
(* A FormNode is modelled by the two fields the resolver reads: its id and *)
(* node.data.prerequisites.  A Map<string, FormNode> is a function whose   *)
(* DOMAIN is the set of keys; Map.get of a missing key is Undefined.       *)
(*                                                                         *)
(* Two specifications share the definitions of the algorithms:             *)
(*   Spec     every call runs to completion in one action;                 *)
(*   SpecRun  a call advances one loop iteration (or one step of the       *)
(*            recursion) per action.                                       *)
(***************************************************************************)
EXTENDS Integers, Sequences, FiniteSets, TLC

VARIABLES nodes, op, arg, result, run,
          forms, providers, calls, heap, globals,
          hook, inflight

vars == <<nodes, op, arg, result, run, forms, providers, calls, heap, globals,
          hook, inflight>>

\* The state of the data-source module (dataSources/): the form definitions
\* of the graph, the provider table of the registry, the register and
\* unregister calls made so far, the arrays that hold source tables, and the
\* GlobalDataProvider instances.  The resolver reads and writes none of it.
sourceVars == <<forms, providers, calls, heap, globals>>

(***************************************************************************)
(* Bounds of the input universe.                                           *)
(***************************************************************************)
\* Total number of prerequisite entries of an exhaustively drawn graph.
MaxEdges == 3
\* The same, for the graphs on which calls are run step by step.
MaxRunEdges == 2

\* Ids of the nodes of the exhaustively drawn graphs.
NodeIds == {"a", "b", "c"}
\* An id no node has: a dangling prerequisite.
DanglingId == "x"
Ids == NodeIds \cup {DanglingId}

(***************************************************************************)
(* Values.                                                                 *)
(***************************************************************************)
\* The value of Map.get for a missing key.
Undefined == [undefined |-> TRUE]

FormNode(id, prerequisites) == [id |-> id, prerequisites |-> prerequisites]

\* ids.map(...) of a node list
IdsOf(list) == [i \in DOMAIN list |-> list[i].id]

Range(s) == {s[i] : i \in DOMAIN s}

\* Map.get
MapGet(nodeMap, key) == IF key \in DOMAIN nodeMap THEN nodeMap[key] ELSE Undefined

\* new Map(nodes.map((node) => [node.id, node])): a later entry with the same
\* key overwrites an earlier one.
createNodeMap(list) ==
    [k \in Range(IdsOf(list)) |->
        list[CHOOSE i \in DOMAIN list :
                /\ list[i].id = k
                /\ \A j \in DOMAIN list : list[j].id = k => j <= i]]

(***************************************************************************)
(* Faulty variants.  Before some of the definitions below stands a variant *)
(* of it with one slip of the kind the code could have; the properties at  *)
(* the end of the module do not hold of the variants.                      *)
(***************************************************************************)
\* getDirectDependencies without the .filter: an id that does not resolve
\* leaves an undefined entry.
getDirectDependenciesUnfiltered(node, nodeMap) ==
    [i \in DOMAIN node.prerequisites |-> MapGet(nodeMap, node.prerequisites[i])]

(***************************************************************************)
(* getDirectDependencies: prerequisites.map(get).filter(defined)           *)
(***************************************************************************)
getDirectDependencies(node, nodeMap) ==
    SelectSeq([i \in DOMAIN node.prerequisites |->
                  MapGet(nodeMap, node.prerequisites[i])],
              LAMBDA n : n # Undefined)

(***************************************************************************)
(* getTransitiveDependencies.  The loop state is                           *)
(* [queue, visited, transitiveDeps]; directDeps and nodeMap are fixed.     *)
(***************************************************************************)
\* transitiveDeps.some((n) => n.id === prereqId)
SomeHasId(list, id) == \E i \in DOMAIN list : list[i].id = id

\* The loop body without the `!directDeps.has(prereqId)` test.
TransitiveVisitPrereqNoDirectTest(nodeMap, directDeps, visited, s, prereqId) ==
    LET prereqNode == MapGet(nodeMap, prereqId)
    IN IF prereqId \notin visited
       THEN [s EXCEPT
               !.queue = Append(@, prereqId),
               !.transitiveDeps =
                   IF /\ prereqNode # Undefined
                      /\ ~SomeHasId(s.transitiveDeps, prereqId)
                   THEN Append(@, prereqNode)
                   ELSE @]
       ELSE s

\* The loop body without the `!transitiveDeps.some(...)` test.
TransitiveVisitPrereqNoSomeTest(nodeMap, directDeps, visited, s, prereqId) ==
    LET prereqNode == MapGet(nodeMap, prereqId)
    IN IF prereqId \notin visited
       THEN [s EXCEPT
               !.queue = Append(@, prereqId),
               !.transitiveDeps =
                   IF /\ prereqId \notin directDeps
                      /\ prereqNode # Undefined
                   THEN Append(@, prereqNode)
                   ELSE @]
       ELSE s

\* The body of `for (const prereqId of currentNode.data.prerequisites)` for
\* one prereqId: enqueue it when it is not visited, and record it when it is
\* no direct dependency, resolves and is not recorded yet.
TransitiveVisitPrereq(nodeMap, directDeps, visited, s, prereqId) ==
    LET prereqNode == MapGet(nodeMap, prereqId)
    IN IF prereqId \notin visited
       THEN [s EXCEPT
               !.queue = Append(@, prereqId),
               !.transitiveDeps =
                   IF /\ prereqId \notin directDeps
                      /\ prereqNode # Undefined
                      /\ ~SomeHasId(s.transitiveDeps, prereqId)
                   THEN Append(@, prereqNode)
                   ELSE @]
       ELSE s

\* The for loop, from index i on.  visited does not change inside it.
RECURSIVE TransitiveScan(_, _, _, _, _, _)
TransitiveScan(nodeMap, directDeps, prereqs, i, visited, s) ==
    IF i > Len(prereqs) THEN s
    ELSE TransitiveScan(nodeMap, directDeps, prereqs, i + 1, visited,
                        TransitiveVisitPrereq(nodeMap, directDeps, visited, s, prereqs[i]))

\* An iteration that takes the id from the end of the queue: queue.pop().
TransitiveIterationPop(nodeMap, directDeps, s) ==
    LET currentId == s.queue[Len(s.queue)]
        shifted == [s EXCEPT !.queue = SubSeq(@, 1, Len(@) - 1)]
    IN IF currentId \in s.visited THEN shifted
       ELSE LET marked == [shifted EXCEPT !.visited = @ \cup {currentId}]
                currentNode == MapGet(nodeMap, currentId)
            IN IF currentNode = Undefined THEN marked
               ELSE TransitiveScan(nodeMap, directDeps,
                                   currentNode.prerequisites, 1,
                                   marked.visited, marked)

\* An iteration that reads queue[0] and shifts the queue only after the
\* `continue` of an id that is visited already.
TransitiveIterationLateShift(nodeMap, directDeps, s) ==
    LET currentId == Head(s.queue)
        shifted == [s EXCEPT !.queue = Tail(@)]
    IN IF currentId \in s.visited THEN s
       ELSE LET marked == [shifted EXCEPT !.visited = @ \cup {currentId}]
                currentNode == MapGet(nodeMap, currentId)
            IN IF currentNode = Undefined THEN marked
               ELSE TransitiveScan(nodeMap, directDeps,
                                   currentNode.prerequisites, 1,
                                   marked.visited, marked)

\* One iteration of `while (queue.length > 0)`.
TransitiveIteration(nodeMap, directDeps, s) ==
    LET currentId == Head(s.queue)
        shifted == [s EXCEPT !.queue = Tail(@)]
    IN IF currentId \in s.visited THEN shifted
       ELSE LET marked == [shifted EXCEPT !.visited = @ \cup {currentId}]
                currentNode == MapGet(nodeMap, currentId)
            IN IF currentNode = Undefined THEN marked
               ELSE TransitiveScan(nodeMap, directDeps,
                                   currentNode.prerequisites, 1,
                                   marked.visited, marked)

\* visited not seeded with the node's own id.
TransitiveStartUnseeded(node) ==
    [queue |-> node.prerequisites, visited |-> {}, transitiveDeps |-> <<>>]

\* The state before the loop.
TransitiveStart(node) ==
    [queue |-> node.prerequisites, visited |-> {node.id}, transitiveDeps |-> <<>>]

RECURSIVE TransitiveLoop(_, _, _)
TransitiveLoop(nodeMap, directDeps, s) ==
    IF Len(s.queue) > 0
    THEN TransitiveLoop(nodeMap, directDeps, TransitiveIteration(nodeMap, directDeps, s))
    ELSE s

getTransitiveDependencies(node, nodeMap) ==
    TransitiveLoop(nodeMap, Range(node.prerequisites), TransitiveStart(node)).transitiveDeps

(***************************************************************************)
(* getAllDependencies                                                      *)
(***************************************************************************)
getAllDependencies(node, nodeMap) ==
    [direct |-> getDirectDependencies(node, nodeMap),
     transitive |-> getTransitiveDependencies(node, nodeMap)]

(***************************************************************************)
(* getAllAncestors.  The loop state is [queue, visited, ancestors].        *)
(***************************************************************************)
\* The inner for loop: enqueue every prerequisite that is not visited.
RECURSIVE AncestorsScan(_, _, _, _)
AncestorsScan(prereqs, i, visited, s) ==
    IF i > Len(prereqs) THEN s
    ELSE AncestorsScan(prereqs, i + 1, visited,
                       IF prereqs[i] \notin visited
                       THEN [s EXCEPT !.queue = Append(@, prereqs[i])]
                       ELSE s)

\* One iteration of `while (queue.length > 0)`.
AncestorsIteration(nodeMap, s) ==
    LET currentId == Head(s.queue)
        shifted == [s EXCEPT !.queue = Tail(@)]
    IN IF currentId \in s.visited THEN shifted
       ELSE LET marked == [shifted EXCEPT !.visited = @ \cup {currentId}]
                currentNode == MapGet(nodeMap, currentId)
            IN IF currentNode = Undefined THEN marked
               ELSE AncestorsScan(currentNode.prerequisites, 1, marked.visited,
                                  [marked EXCEPT !.ancestors = Append(@, currentNode)])

\* visited not seeded with the node's own id.
AncestorsStartUnseeded(node) ==
    [queue |-> node.prerequisites, visited |-> {}, ancestors |-> <<>>]

AncestorsStart(node) ==
    [queue |-> node.prerequisites, visited |-> {node.id}, ancestors |-> <<>>]

RECURSIVE AncestorsLoop(_, _)
AncestorsLoop(nodeMap, s) ==
    IF Len(s.queue) > 0
    THEN AncestorsLoop(nodeMap, AncestorsIteration(nodeMap, s))
    ELSE s

getAllAncestors(node, nodeMap) ==
    AncestorsLoop(nodeMap, AncestorsStart(node)).ancestors

(***************************************************************************)
(* topologicalSort.  The recursion of visit is modelled with its call      *)
(* stack: a frame [node, i] is an activation of visit(node) whose for loop *)
(* is about to read node.data.prerequisites[i].  next is the position of   *)
(* the outer `for (const node of nodes)`; warnings counts the              *)
(* console.warn('Cycle detected in form dependencies') calls.              *)
(***************************************************************************)
\* visit without the `visited.has(node.id)` return.
VisitCallNoVisitedTest(node, s) ==
    IF node.id \in s.visiting THEN [s EXCEPT !.warnings = @ + 1]
    ELSE [s EXCEPT !.visiting = @ \cup {node.id},
                   !.stack = Append(@, [node |-> node, i |-> 1])]

\* visit without the console.warn of the second early return.
VisitCallSilent(node, s) ==
    IF node.id \in s.visited THEN s
    ELSE IF node.id \in s.visiting THEN s
    ELSE [s EXCEPT !.visiting = @ \cup {node.id},
                   !.stack = Append(@, [node |-> node, i |-> 1])]

\* A call visit(node): the two early returns, or visiting.add(node.id) and
\* the entry into the for loop.
VisitCall(node, s) ==
    IF node.id \in s.visited THEN s
    ELSE IF node.id \in s.visiting THEN [s EXCEPT !.warnings = @ + 1]
    ELSE [s EXCEPT !.visiting = @ \cup {node.id},
                   !.stack = Append(@, [node |-> node, i |-> 1])]

\* A sort whose visit does not descend into the prerequisites.
SortStepNoDescent(list, nodeMap, s) ==
    IF Len(s.stack) = 0
    THEN VisitCall(list[s.next], [s EXCEPT !.next = @ + 1])
    ELSE LET top == s.stack[Len(s.stack)]
             prereqs == top.node.prerequisites
         IN IF top.i <= Len(prereqs)
            THEN [s EXCEPT !.stack[Len(s.stack)].i = @ + 1]
            ELSE [s EXCEPT !.visiting = @ \ {top.node.id},
                           !.visited = @ \cup {top.node.id},
                           !.sorted = Append(@, top.node),
                           !.stack = SubSeq(@, 1, Len(@) - 1)]

\* A sort whose visit ends with sorted.unshift(node) instead of sorted.push(node).
SortStepUnshift(list, nodeMap, s) ==
    IF Len(s.stack) = 0
    THEN VisitCall(list[s.next], [s EXCEPT !.next = @ + 1])
    ELSE LET top == s.stack[Len(s.stack)]
             prereqs == top.node.prerequisites
         IN IF top.i <= Len(prereqs)
            THEN LET prereqNode == MapGet(nodeMap, prereqs[top.i])
                     advanced == [s EXCEPT !.stack[Len(s.stack)].i = @ + 1]
                 IN IF prereqNode # Undefined
                    THEN VisitCall(prereqNode, advanced)
                    ELSE advanced
            ELSE [s EXCEPT !.visiting = @ \ {top.node.id},
                           !.visited = @ \cup {top.node.id},
                           !.sorted = <<top.node>> \o @,
                           !.stack = SubSeq(@, 1, Len(@) - 1)]

\* One step of the sort: the outer loop calls visit on the next node; or the
\* innermost activation reads its next prerequisite and visits it when it
\* resolves; or that activation has read all of them and finishes.
SortStep(list, nodeMap, s) ==
    IF Len(s.stack) = 0
    THEN VisitCall(list[s.next], [s EXCEPT !.next = @ + 1])
    ELSE LET top == s.stack[Len(s.stack)]
             prereqs == top.node.prerequisites
         IN IF top.i <= Len(prereqs)
            THEN LET prereqNode == MapGet(nodeMap, prereqs[top.i])
                     advanced == [s EXCEPT !.stack[Len(s.stack)].i = @ + 1]
                 IN IF prereqNode # Undefined
                    THEN VisitCall(prereqNode, advanced)
                    ELSE advanced
            ELSE [s EXCEPT !.visiting = @ \ {top.node.id},
                           !.visited = @ \cup {top.node.id},
                           !.sorted = Append(@, top.node),
                           !.stack = SubSeq(@, 1, Len(@) - 1)]

SortStart ==
    [sorted |-> <<>>, visited |-> {}, visiting |-> {}, stack |-> <<>>,
     next |-> 1, warnings |-> 0]

\* The outer loop is over and no activation of visit is left.
SortDone(list, s) == Len(s.stack) = 0 /\ s.next > Len(list)

RECURSIVE SortLoop(_, _, _)
SortLoop(list, nodeMap, s) ==
    IF SortDone(list, s) THEN s
    ELSE SortLoop(list, nodeMap, SortStep(list, nodeMap, s))

topologicalSort(list) == SortLoop(list, createNodeMap(list), SortStart).sorted

\* How many times a call of topologicalSort writes the warning.
cycleWarnings(list) == SortLoop(list, createNodeMap(list), SortStart).warnings

(***************************************************************************)
(* Inputs.  Every graph over NodeIds whose prerequisite lists hold at most *)
(* a given number of entries in total (entries may be dangling, repeated,  *)
(* self-referencing or cyclic), in every order of the node list; and the   *)
(* graphs of the test-suite.                                               *)
(***************************************************************************)
RECURSIVE PrereqTables(_)
PrereqTables(e) ==
    IF e = 0 THEN {[n \in NodeIds |-> <<>>]}
    ELSE LET fewer == PrereqTables(e - 1)
         IN fewer \cup {[p EXCEPT ![n] = Append(@, t)] :
                            p \in fewer, n \in NodeIds, t \in Ids}

Orders == {o \in [1..Cardinality(NodeIds) -> NodeIds] :
              \A i, j \in DOMAIN o : o[i] = o[j] => i = j}

NodeLists(e) ==
    {[i \in DOMAIN o |-> FormNode(o[i], p[o[i]])] : o \in Orders, p \in PrereqTables(e)}

\* dagUtils.test.ts: A -> B -> D, A -> C -> E, D -> F, E -> F
TestDag ==
    << FormNode("a", <<>>), FormNode("b", <<"a">>), FormNode("c", <<"a">>),
       FormNode("d", <<"b">>), FormNode("e", <<"c">>), FormNode("f", <<"d", "e">>) >>

\* The diamond A, B([A]), C([A]), D([B, C]), dependents first.
Diamond ==
    << FormNode("d", <<"b", "c">>), FormNode("c", <<"a">>),
       FormNode("b", <<"a">>), FormNode("a", <<>>) >>

\* A([B]), B([D, C]), C([E]), D([C]), E([]): D and C are found from B, C
\* being a prerequisite of D, and E one hop further.
Fan ==
    << FormNode("a", <<"b">>), FormNode("b", <<"d", "c">>),
       FormNode("c", <<"e">>), FormNode("d", <<"c">>), FormNode("e", <<>>) >>

Fixtures == {TestDag, Diamond, Fan, <<FormNode("a", <<>>)>>, <<>>}

Inputs == NodeLists(MaxEdges) \cup Fixtures

RunInputs == NodeLists(MaxRunEdges) \cup {Diamond}

Idle == [kind |-> "none"]

(***************************************************************************)
(* Spec: the resolver functions as calls that run to completion.  The      *)
(* graph is held by the caller and is not written by any call.             *)
(***************************************************************************)
\* No component has called useGraph.
NoHook ==
    /\ hook = [unmounted |-> TRUE]
    /\ inflight = <<>>

\* No form definition, no provider, no source table.
NoSources ==
    /\ forms = <<>>
    /\ providers = <<>>
    /\ calls = <<>>
    /\ heap = <<>>
    /\ globals = <<>>

Init ==
    /\ NoHook
    /\ nodes \in Inputs
    /\ op = "none"
    /\ arg = Undefined
    /\ result = [list |-> <<>>]
    /\ run = Idle
    /\ NoSources

\* The loop shifts the queue until it is empty, and the queue is the array
\* of the prerequisites itself.
AfterQueueDrainedInPlace(prerequisites) == <<>>

\* `const queue = [...node.data.prerequisites]`: the queue the loop shifts
\* until it is empty is a copy, and the array of the node keeps its
\* elements.
AfterQueueDrained(prerequisites) == prerequisites

\* The node list after a call whose queue was seeded from the node.
NodesAfterQueueDrained(list, node) ==
    [i \in DOMAIN list |->
        IF list[i].id = node.id
        THEN [list[i] EXCEPT !.prerequisites = AfterQueueDrained(@)]
        ELSE list[i]]

CallDirectDependencies(node) ==
    /\ op' = "getDirectDependencies"
    /\ arg' = node
    /\ result' = [list |-> getDirectDependencies(node, createNodeMap(nodes))]
    /\ UNCHANGED <<nodes, run, sourceVars, hook, inflight>>

CallTransitiveDependencies(node) ==
    /\ op' = "getTransitiveDependencies"
    /\ arg' = node
    /\ result' = [list |-> getTransitiveDependencies(node, createNodeMap(nodes))]
    /\ nodes' = NodesAfterQueueDrained(nodes, node)
    /\ UNCHANGED <<run, sourceVars, hook, inflight>>

CallAllDependencies(node) ==
    /\ op' = "getAllDependencies"
    /\ arg' = node
    /\ result' = getAllDependencies(node, createNodeMap(nodes))
    /\ UNCHANGED <<nodes, run, sourceVars, hook, inflight>>

CallAllAncestors(node) ==
    /\ op' = "getAllAncestors"
    /\ arg' = node
    /\ result' = [list |-> getAllAncestors(node, createNodeMap(nodes))]
    /\ nodes' = NodesAfterQueueDrained(nodes, node)
    /\ UNCHANGED <<run, sourceVars, hook, inflight>>

CallTopologicalSort ==
    /\ op' = "topologicalSort"
    /\ arg' = Undefined
    /\ result' = [list |-> topologicalSort(nodes), warnings |-> cycleWarnings(nodes)]
    /\ UNCHANGED <<nodes, run, sourceVars, hook, inflight>>

Next ==
    \/ \E node \in Range(nodes) : CallDirectDependencies(node)
    \/ \E node \in Range(nodes) : CallTransitiveDependencies(node)
    \/ \E node \in Range(nodes) : CallAllDependencies(node)
    \/ \E node \in Range(nodes) : CallAllAncestors(node)
    \/ CallTopologicalSort

Spec == Init /\ [][Next]_vars

(***************************************************************************)
(* SpecRun: the same functions, one loop iteration or one step of the      *)
(* recursion per action.  run is Idle, or holds the local state s of the   *)
(* call in progress; op and arg name the function and its node argument.   *)
(* The resolver is synchronous and single-threaded: a call in progress is  *)
(* the only thing running, and it keeps running until it returns.          *)
(***************************************************************************)
InitRun ==
    /\ NoHook
    /\ nodes \in RunInputs
    /\ op = "none"
    /\ arg = Undefined
    /\ result = [list |-> <<>>]
    /\ run = Idle
    /\ NoSources

Begin(name, node, s) ==
    /\ run = Idle
    /\ op' = name
    /\ arg' = node
    /\ result' = [list |-> <<>>]
    /\ run' = [kind |-> "call", s |-> s]
    /\ UNCHANGED <<nodes, sourceVars, hook, inflight>>

Running(name) == run # Idle /\ op = name

Continue(s) ==
    /\ run' = [run EXCEPT !.s = s]
    /\ UNCHANGED <<nodes, op, arg, result, sourceVars, hook, inflight>>

Return(list) ==
    /\ result' = [list |-> list]
    /\ run' = Idle
    /\ UNCHANGED <<nodes, op, arg, sourceVars, hook, inflight>>

BeginDirectDependencies(node) ==
    Begin("getDirectDependencies", node, [prerequisites |-> node.prerequisites])

ReturnDirectDependencies ==
    /\ Running("getDirectDependencies")
    /\ Return(getDirectDependencies(arg, createNodeMap(nodes)))

BeginTransitiveDependencies(node) ==
    Begin("getTransitiveDependencies", node, TransitiveStart(node))

StepTransitiveDependencies ==
    /\ Running("getTransitiveDependencies")
    /\ Len(run.s.queue) > 0
    /\ Continue(TransitiveIteration(createNodeMap(nodes), Range(arg.prerequisites), run.s))

ReturnTransitiveDependencies ==
    /\ Running("getTransitiveDependencies")
    /\ ~(Len(run.s.queue) > 0)
    /\ Return(run.s.transitiveDeps)

BeginAllAncestors(node) ==
    Begin("getAllAncestors", node, AncestorsStart(node))

StepAllAncestors ==
    /\ Running("getAllAncestors")
    /\ Len(run.s.queue) > 0
    /\ Continue(AncestorsIteration(createNodeMap(nodes), run.s))

ReturnAllAncestors ==
    /\ Running("getAllAncestors")
    /\ ~(Len(run.s.queue) > 0)
    /\ Return(run.s.ancestors)

BeginTopologicalSort ==
    Begin("topologicalSort", Undefined, SortStart)

StepTopologicalSort ==
    /\ Running("topologicalSort")
    /\ ~SortDone(nodes, run.s)
    /\ Continue(SortStep(nodes, createNodeMap(nodes), run.s))

ReturnTopologicalSort ==
    /\ Running("topologicalSort")
    /\ SortDone(nodes, run.s)
    /\ Return(run.s.sorted)

\* What a call in progress does next.
Advance ==
    \/ ReturnDirectDependencies
    \/ StepTransitiveDependencies
    \/ ReturnTransitiveDependencies
    \/ StepAllAncestors
    \/ ReturnAllAncestors
    \/ StepTopologicalSort
    \/ ReturnTopologicalSort

NextRun ==
    \/ \E node \in Range(nodes) : BeginDirectDependencies(node)
    \/ \E node \in Range(nodes) : BeginTransitiveDependencies(node)
    \/ \E node \in Range(nodes) : BeginAllAncestors(node)
    \/ BeginTopologicalSort
    \/ ReturnDirectDependencies
    \/ StepTransitiveDependencies
    \/ ReturnTransitiveDependencies
    \/ StepAllAncestors
    \/ ReturnAllAncestors
    \/ StepTopologicalSort
    \/ ReturnTopologicalSort

SpecRun == InitRun /\ [][NextRun]_vars /\ WF_vars(Advance)

(***************************************************************************)
(* getFormDefinition and getFormFields (graph/dagUtils.ts).  A graph is    *)
(* [nodes, forms].  A node carries, besides id and prerequisites, its      *)
(* data.name, data.component_id and data.input_mapping.  A form definition *)
(* is [id, field_schema]; field_schema.properties, when present, is the    *)
(* sequence of the [key, value] pairs of Object.entries.  An optional      *)
(* property that is not set is a field the record does not have.           *)
(***************************************************************************)
FormNodeData(id, prerequisites, name, component_id, input_mapping) ==
    [id |-> id, prerequisites |-> prerequisites, name |-> name,
     component_id |-> component_id, input_mapping |-> input_mapping]

Has(object, property) == property \in DOMAIN object

\* A value in a boolean context: an absent property and '' are falsy.
Truthy(object, property) == Has(object, property) /\ object[property] # ""

\* graph.forms.find((form) => form.id === id): the first form of the id,
\* or undefined.
FindForm(list, id) ==
    IF \E i \in DOMAIN list : list[i].id = id
    THEN list[CHOOSE i \in DOMAIN list :
                  list[i].id = id /\ \A j \in 1..(i - 1) : list[j].id # id]
    ELSE Undefined

getFormDefinition(node, graph) == FindForm(graph.forms, node.component_id)

\* The entry with the title alone as its name, '' when none is declared.
FieldInfoTitleOnly(fieldId, fieldSchema) ==
    [id |-> fieldId,
     name |-> IF Has(fieldSchema, "title") THEN fieldSchema.title ELSE "",
     type |-> fieldSchema.type]

\* The element of Object.entries(properties).map(...) for one entry.
FieldInfo(fieldId, fieldSchema) ==
    LET base == [id |-> fieldId,
                 name |-> IF Truthy(fieldSchema, "title") THEN fieldSchema.title ELSE fieldId,
                 type |-> fieldSchema.type]
    IN IF Has(fieldSchema, "avantos_type")
       THEN [id |-> base.id, name |-> base.name, type |-> base.type,
             avantosType |-> fieldSchema.avantos_type]
       ELSE base

getFormFields(node, graph) ==
    LET formDef == getFormDefinition(node, graph)
    IN IF formDef = Undefined \/ ~Has(formDef.field_schema, "properties")
       THEN <<>>
       ELSE [i \in DOMAIN formDef.field_schema.properties |->
                FieldInfo(formDef.field_schema.properties[i][1],
                          formDef.field_schema.properties[i][2])]

(***************************************************************************)
(* DirectDependencyFieldsProvider and TransitiveDependencyFieldsProvider   *)
(* (dataSources/FormFieldsProvider.ts).                                    *)
(***************************************************************************)
\* An item of a group of a dependency: fields.map((field) => ({...})).
FormFieldItem(node, field) ==
    [id |-> node.id \o ":" \o field.id,
     label |-> node.name \o "." \o field.name,
     type |-> "form_field",
     sourceId |-> node.id,
     sourceName |-> node.name,
     fieldId |-> field.id,
     fieldName |-> field.name,
     fieldType |-> IF Truthy(field, "avantosType") THEN field.avantosType ELSE field.type]

\* createGroupForNode of both providers; they differ in the description.
createGroupForNode(node, graph, description) ==
    LET fields == getFormFields(node, graph)
    IN [id |-> "form-" \o node.id,
        name |-> node.name,
        type |-> "form",
        description |-> description,
        items |-> [i \in DOMAIN fields |-> FormFieldItem(node, fields[i])]]

\* isApplicable that asks for a dependency that resolves.
DirectIsApplicableResolved(node, graph) ==
    Len(getDirectDependencies(node, createNodeMap(graph.nodes))) > 0

DirectIsApplicable(node, graph) == Len(node.prerequisites) > 0

DirectGetDataSources(node, graph) ==
    LET nodeMap == createNodeMap(graph.nodes)
        directDeps == getDirectDependencies(node, nodeMap)
    IN [i \in DOMAIN directDeps |->
           createGroupForNode(directDeps[i], graph, "Direct dependency")]

\* isApplicable with the test of the direct provider.
TransitiveIsApplicableByPrerequisites(node, graph) == Len(node.prerequisites) > 0

TransitiveIsApplicable(node, graph) ==
    LET nodeMap == createNodeMap(graph.nodes)
        transitiveDeps == getTransitiveDependencies(node, nodeMap)
    IN Len(transitiveDeps) > 0

TransitiveGetDataSources(node, graph) ==
    LET nodeMap == createNodeMap(graph.nodes)
        transitiveDeps == getTransitiveDependencies(node, nodeMap)
    IN [i \in DOMAIN transitiveDeps |->
           createGroupForNode(transitiveDeps[i], graph, "Transitive dependency")]

(***************************************************************************)
(* GlobalDataProvider (dataSources/GlobalDataProvider.ts).  Arrays are     *)
(* objects: heap is the sequence of the arrays that hold source tables and *)
(* a reference is a position in it.  The module-level array                *)
(* globalDataSources is allocated first; an instance is [sources], the     *)
(* reference in its private field.                                         *)
(***************************************************************************)
Field(id, name, type) == [id |-> id, name |-> name, type |-> type]

\* The initial contents of the module-level array globalDataSources.
DefaultSources ==
    << [id |-> "action-properties", name |-> "Action Properties",
        description |-> "Properties of the current action/workflow",
        fields |-> << Field("action_id", "Action ID", "string"),
                      Field("action_name", "Action Name", "string"),
                      Field("action_status", "Action Status", "string"),
                      Field("created_at", "Created At", "datetime"),
                      Field("updated_at", "Updated At", "datetime") >>],
       [id |-> "client-org-properties", name |-> "Client Organisation Properties",
        description |-> "Properties of the client organization",
        fields |-> << Field("org_id", "Organisation ID", "string"),
                      Field("org_name", "Organisation Name", "string"),
                      Field("org_email", "Organisation Email", "email"),
                      Field("org_country", "Country", "string"),
                      Field("org_timezone", "Timezone", "string") >>],
       [id |-> "user-context", name |-> "User Context",
        description |-> "Information about the current user",
        fields |-> << Field("user_id", "User ID", "string"),
                      Field("user_email", "User Email", "email"),
                      Field("user_name", "User Name", "string"),
                      Field("user_role", "User Role", "string") >>],
       [id |-> "system-context", name |-> "System Context",
        description |-> "System-level information",
        fields |-> << Field("current_date", "Current Date", "date"),
                      Field("current_time", "Current Time", "time"),
                      Field("current_datetime", "Current DateTime", "datetime"),
                      Field("environment", "Environment", "string") >>] >>

\* The reference of the module-level array.
GlobalDataSourcesRef == 1

\* The heap when the module is loaded.
ModuleHeap == <<DefaultSources>>

\* source.fields.map((field) => ({...})) for one field.
GlobalItem(source, field) ==
    [id |-> source.id \o ":" \o field.id,
     label |-> source.name \o "." \o field.name,
     type |-> "global",
     sourceId |-> source.id,
     sourceName |-> source.name,
     fieldId |-> field.id,
     fieldName |-> field.name,
     fieldType |-> field.type,
     path |-> IF Truthy(field, "path") THEN field.path
              ELSE source.id \o "." \o field.id]

\* this.sources.map((source) => ({...})) for one source.
GlobalGroup(source) ==
    LET items == [i \in DOMAIN source.fields |-> GlobalItem(source, source.fields[i])]
    IN IF Has(source, "description")
       THEN [id |-> "global-" \o source.id, name |-> source.name, type |-> "global",
             description |-> source.description, items |-> items]
       ELSE [id |-> "global-" \o source.id, name |-> source.name, type |-> "global",
             items |-> items]

\* isApplicable of an instance: true, whatever the node and the graph.
GlobalIsApplicable(instance, node, graph) == TRUE

\* getDataSources that answers, as the form providers do, from the node:
\* nothing for a node without prerequisites.
GlobalGetDataSourcesOfDependents(instance, node, graph, arrays) ==
    LET sources == arrays[instance.sources]
    IN IF Len(node.prerequisites) > 0
       THEN [i \in DOMAIN sources |-> GlobalGroup(sources[i])]
       ELSE <<>>

\* getDataSources of an instance, given the arrays.
GlobalGetDataSources(instance, node, graph, arrays) ==
    LET sources == arrays[instance.sources]
    IN [i \in DOMAIN sources |-> GlobalGroup(sources[i])]

\* The constructor: `customSources || globalDataSources`.  custom is
\* Undefined or the reference of the array the caller passes.
NewGlobalDataProvider(custom) ==
    [sources |-> IF custom = Undefined THEN GlobalDataSourcesRef ELSE custom.ref]

\* addSource with unshift in the place of push.
addSourceUnshift(instance, source, arrays) ==
    [arrays EXCEPT ![instance.sources] = <<source>> \o @]

\* addSource: this.sources.push(source) writes into the array the instance
\* refers to.  The arrays after the call.
addSource(instance, source, arrays) ==
    [arrays EXCEPT ![instance.sources] = Append(@, source)]

\* removeSource: this.sources = this.sources.filter(...) allocates the
\* filtered array and stores its reference.  The arrays and the instance
\* after the call.
removeSource(instance, sourceId, arrays) ==
    [arrays |-> Append(arrays, SelectSeq(arrays[instance.sources],
                                         LAMBDA s : s.id # sourceId)),
     instance |-> [instance EXCEPT !.sources = Len(arrays) + 1]]

(***************************************************************************)
(* DataSourceProvider objects.  class selects the implementation of        *)
(* isApplicable and getDataSources:                                        *)
(*   TestProvider (DataSourceProvider.test.ts) answers with the values it  *)
(*     was constructed with;                                               *)
(*   the three classes of the module answer as defined above; a            *)
(*     GlobalDataProvider object is the instance globals[instance].        *)
(***************************************************************************)
TestProvider(id, priority, applicable, sources) ==
    [class |-> "TestProvider", id |-> id, name |-> "Test Provider",
     priority |-> priority, applicable |-> applicable, sources |-> sources]

DirectDependencyFieldsProvider ==
    [class |-> "DirectDependencyFieldsProvider", id |-> "direct-dependencies",
     name |-> "Direct Dependencies", priority |-> 10]

\* The transitive provider with a priority ahead of the direct provider.
TransitiveDependencyFieldsProviderFirst ==
    [class |-> "TransitiveDependencyFieldsProvider", id |-> "transitive-dependencies",
     name |-> "Transitive Dependencies", priority |-> 5]

TransitiveDependencyFieldsProvider ==
    [class |-> "TransitiveDependencyFieldsProvider", id |-> "transitive-dependencies",
     name |-> "Transitive Dependencies", priority |-> 20]

GlobalDataProvider(instance) ==
    [class |-> "GlobalDataProvider", id |-> "global-data",
     name |-> "Global Data", priority |-> 30, instance |-> instance]

\* provider.isApplicable(node, graph)
isApplicable(provider, node, graph) ==
    CASE provider.class = "TestProvider" -> provider.applicable
      [] provider.class = "DirectDependencyFieldsProvider" -> DirectIsApplicable(node, graph)
      [] provider.class = "TransitiveDependencyFieldsProvider" -> TransitiveIsApplicable(node, graph)
      [] provider.class = "GlobalDataProvider" ->
             GlobalIsApplicable(globals[provider.instance], node, graph)

\* provider.getDataSources(node, graph)
getDataSources(provider, node, graph) ==
    CASE provider.class = "TestProvider" -> provider.sources
      [] provider.class = "DirectDependencyFieldsProvider" -> DirectGetDataSources(node, graph)
      [] provider.class = "TransitiveDependencyFieldsProvider" -> TransitiveGetDataSources(node, graph)
      [] provider.class = "GlobalDataProvider" ->
             GlobalGetDataSources(globals[provider.instance], node, graph, heap)

(***************************************************************************)
(* DataSourceRegistry (dataSources/index.ts).  The private                 *)
(* Map<string, DataSourceProvider> is the sequence of its values in        *)
(* insertion order, no two with the same id.                               *)
(***************************************************************************)
\* Map.set with an array push in its place: a second entry under the same id.
MapSetPush(entries, provider) == Append(entries, provider)

\* Map.set(provider.id, provider): the value of a present key is replaced
\* where it stands, a new key is added at the end.
MapSet(entries, provider) ==
    IF \E i \in DOMAIN entries : entries[i].id = provider.id
    THEN [i \in DOMAIN entries |->
             IF entries[i].id = provider.id THEN provider ELSE entries[i]]
    ELSE Append(entries, provider)

\* Map.delete(providerId): nothing happens when the key is absent.
MapDelete(entries, providerId) ==
    SelectSeq(entries, LAMBDA provider : provider.id # providerId)

\* The comparator (a, b) => a.priority - b.priority.
ComparePriority(a, b) == a.priority - b.priority

\* Array.prototype.sort is stable: an element goes behind the elements it
\* does not precede.  One insertion into a sorted list.
InsertSorted(sorted, provider) ==
    LET k == Cardinality({i \in DOMAIN sorted : ComparePriority(sorted[i], provider) <= 0})
    IN SubSeq(sorted, 1, k) \o <<provider>> \o SubSeq(sorted, k + 1, Len(sorted))

RECURSIVE SortFrom(_, _, _)
SortFrom(list, i, sorted) ==
    IF i > Len(list) THEN sorted
    ELSE SortFrom(list, i + 1, InsertSorted(sorted, list[i]))

\* getProviders without the sort: the values in insertion order.
getProvidersUnsorted(entries) == entries

\* Array.from(this.providers.values()).sort(...): a sorted copy.
getProviders(entries) == SortFrom(entries, 1, <<>>)

\* The loop body without the isApplicable test.
CollectGroupsNoApplicableTest(groups, provider, node, graph) ==
    groups \o getDataSources(provider, node, graph)

\* The body of `for (const provider of this.getProviders())`.
CollectGroups(groups, provider, node, graph) ==
    IF isApplicable(provider, node, graph)
    THEN groups \o getDataSources(provider, node, graph)
    ELSE groups

RECURSIVE CollectFrom(_, _, _, _, _)
CollectFrom(list, i, node, graph, groups) ==
    IF i > Len(list) THEN groups
    ELSE CollectFrom(list, i + 1, node, graph,
                     CollectGroups(groups, list[i], node, graph))

getAllDataSources(entries, node, graph) ==
    CollectFrom(getProviders(entries), 1, node, graph, <<>>)

(***************************************************************************)
(* SpecRegistry: a registry that starts empty and receives register and    *)
(* unregister calls with test providers; getProviders and                  *)
(* getAllDataSources are called in between.  calls records the register   *)
(* and unregister calls in the order they were made.                       *)
(***************************************************************************)
\* How many register and unregister calls a run makes.
MaxCalls == 3

TestProviderIds == {"provider-1", "provider-2", "provider-3"}
TestPriorities == {10, 20}

Group(id, type) == [id |-> id, name |-> "Group " \o id, type |-> type, items |-> <<>>]

\* The groups a test provider is constructed with.
TestSources(id) ==
    CASE id = "provider-1" -> <<Group("group-1", "form")>>
      [] id = "provider-2" -> <<Group("group-2", "global")>>
      [] id = "provider-3" -> <<Group("group-3a", "form"), Group("group-3b", "global")>>

TestProviders ==
    {TestProvider(id, priority, applicable, TestSources(id)) :
        id \in TestProviderIds, priority \in TestPriorities, applicable \in BOOLEAN}

\* mockNode and mockGraph of DataSourceProvider.test.ts.
MockNode == FormNodeData("test-node", <<"prereq-1">>, "Test Form", "form-def-1", <<>>)

Graph == [nodes |-> nodes, forms |-> forms]

InitRegistry ==
    /\ NoHook
    /\ nodes = <<MockNode>>
    /\ op = "none"
    /\ arg = Undefined
    /\ result = [list |-> <<>>]
    /\ run = Idle
    /\ forms = <<>>
    /\ providers = <<>>
    /\ calls = <<>>
    /\ heap = ModuleHeap
    /\ globals = <<>>

Register(provider) ==
    /\ Len(calls) < MaxCalls
    /\ providers' = MapSet(providers, provider)
    /\ calls' = Append(calls, [call |-> "register", id |-> provider.id, provider |-> provider])
    /\ op' = "register"
    /\ arg' = provider
    /\ result' = [list |-> <<>>]
    /\ UNCHANGED <<nodes, run, hook, inflight, forms, heap, globals>>

Unregister(providerId) ==
    /\ Len(calls) < MaxCalls
    /\ providers' = MapDelete(providers, providerId)
    /\ calls' = Append(calls, [call |-> "unregister", id |-> providerId])
    /\ op' = "unregister"
    /\ arg' = [id |-> providerId]
    /\ result' = [list |-> <<>>]
    /\ UNCHANGED <<nodes, run, hook, inflight, forms, heap, globals>>

GetProviders ==
    /\ op' = "getProviders"
    /\ arg' = Undefined
    /\ result' = [list |-> getProviders(providers)]
    /\ UNCHANGED <<nodes, run, sourceVars, hook, inflight>>

GetAllDataSources(node) ==
    /\ op' = "getAllDataSources"
    /\ arg' = node
    /\ result' = [list |-> getAllDataSources(providers, node, Graph)]
    /\ UNCHANGED <<nodes, run, sourceVars, hook, inflight>>

NextRegistry ==
    \/ \E provider \in TestProviders : Register(provider)
    \/ \E providerId \in TestProviderIds \cup {"non-existent"} : Unregister(providerId)
    \/ GetProviders
    \/ \E node \in Range(nodes) : GetAllDataSources(node)

SpecRegistry == InitRegistry /\ [][NextRegistry]_vars

(***************************************************************************)
(* SpecGlobal: two GlobalDataProvider instances are created, each with the *)
(* default table or with an array of the caller, at any moment before,     *)
(* between or after the addSource and removeSource calls, which are made   *)
(* on the instance held as provider; getDataSources and isApplicable are   *)
(* called on both.  globals maps the name an instance is held under to the *)
(* instance; calls records the addSource and removeSource calls.           *)
(***************************************************************************)
\* How many addSource and removeSource calls a run makes.
MaxTableCalls == 3

InstanceNames == {"provider", "other"}

\* The arrays the tests of GlobalDataProvider.test.ts construct with.
CustomTables ==
    { <<>>,
      << [id |-> "source-1", name |-> "Source 1", fields |-> <<>>],
         [id |-> "source-2", name |-> "Source 2", fields |-> <<>>] >> }

\* The source the addSource test adds.
NewSource ==
    [id |-> "new-source", name |-> "New Source",
     fields |-> <<Field("newField", "New Field", "string")>>]

RemovedIds == {"new-source", "source-1", "absent"}

\* The instance addSource and removeSource are called on.
TableOwner == "provider"

\* mockNode of GlobalDataProvider.test.ts, and a node that has a prerequisite.
GlobalMockNode == FormNodeData("test-node", <<>>, "Test Form", "form-def-1", <<>>)

\* The graphs getDataSources and isApplicable are called with.
GlobalGraphs == {[nodes |-> nodes, forms |-> forms], [nodes |-> <<>>, forms |-> <<>>]}

InitGlobal ==
    /\ NoHook
    /\ nodes = <<GlobalMockNode, MockNode>>
    /\ op = "none"
    /\ arg = Undefined
    /\ result = [list |-> <<>>]
    /\ run = Idle
    /\ forms = <<>>
    /\ providers = <<>>
    /\ calls = <<>>
    /\ heap = ModuleHeap
    /\ globals = <<>>

Bind(instances, name, instance) ==
    [n \in DOMAIN instances \cup {name} |->
        IF n = name THEN instance ELSE instances[n]]

\* name = new GlobalDataProvider()
NewDefault(name) ==
    /\ name \notin DOMAIN globals
    /\ globals' = Bind(globals, name, NewGlobalDataProvider(Undefined))
    /\ op' = "new"
    /\ arg' = [instance |-> name]
    /\ result' = [list |-> <<>>]
    /\ UNCHANGED <<nodes, run, hook, inflight, forms, providers, calls,
                   heap>>

\* name = new GlobalDataProvider([...]): the array literal is allocated,
\* then passed.
NewCustom(name, table) ==
    /\ name \notin DOMAIN globals
    /\ heap' = Append(heap, table)
    /\ globals' = Bind(globals, name, NewGlobalDataProvider([ref |-> Len(heap) + 1]))
    /\ op' = "new"
    /\ arg' = [instance |-> name]
    /\ result' = [list |-> <<>>]
    /\ UNCHANGED <<nodes, run, hook, inflight, forms, providers, calls>>

AddSource(name, source) ==
    /\ name \in DOMAIN globals
    /\ Len(calls) < MaxTableCalls
    /\ heap' = addSource(globals[name], source, heap)
    /\ calls' = Append(calls, [call |-> "addSource", instance |-> name, id |-> source.id])
    /\ op' = "addSource"
    /\ arg' = [instance |-> name, source |-> source]
    /\ result' = [list |-> <<>>]
    /\ UNCHANGED <<nodes, run, hook, inflight, forms, providers, globals>>

RemoveSource(name, sourceId) ==
    /\ name \in DOMAIN globals
    /\ Len(calls) < MaxTableCalls
    /\ LET after == removeSource(globals[name], sourceId, heap)
       IN /\ heap' = after.arrays
          /\ globals' = Bind(globals, name, after.instance)
    /\ calls' = Append(calls, [call |-> "removeSource", instance |-> name, id |-> sourceId])
    /\ op' = "removeSource"
    /\ arg' = [instance |-> name, id |-> sourceId]
    /\ result' = [list |-> <<>>]
    /\ UNCHANGED <<nodes, run, hook, inflight, forms, providers>>

GlobalDataSources(name, node, graph) ==
    /\ name \in DOMAIN globals
    /\ op' = "getDataSources"
    /\ arg' = [instance |-> name, node |-> node, graph |-> graph]
    /\ result' = [list |-> GlobalGetDataSources(globals[name], node, graph, heap)]
    /\ UNCHANGED <<nodes, run, sourceVars, hook, inflight>>

GlobalApplicable(name, node, graph) ==
    /\ name \in DOMAIN globals
    /\ op' = "isApplicable"
    /\ arg' = [instance |-> name, node |-> node, graph |-> graph]
    /\ result' = [value |-> GlobalIsApplicable(globals[name], node, graph)]
    /\ UNCHANGED <<nodes, run, sourceVars, hook, inflight>>

NextGlobal ==
    \/ \E name \in InstanceNames : NewDefault(name)
    \/ \E name \in InstanceNames, table \in CustomTables : NewCustom(name, table)
    \/ AddSource(TableOwner, NewSource)
    \/ \E sourceId \in RemovedIds : RemoveSource(TableOwner, sourceId)
    \/ \E name \in InstanceNames, node \in Range(nodes), graph \in GlobalGraphs :
           GlobalDataSources(name, node, graph)
    \/ \E name \in InstanceNames, node \in Range(nodes), graph \in GlobalGraphs :
           GlobalApplicable(name, node, graph)

SpecGlobal == InitGlobal /\ [][NextGlobal]_vars

(***************************************************************************)
(* SpecProviders: the registry as dataSources/index.ts leaves it, with the *)
(* three providers of the module registered, over graphs whose nodes refer *)
(* to form definitions; the resolver functions, getFormFields, the         *)
(* providers and the registry are called on the graph.                     *)
(***************************************************************************)
\* The prerequisite lists of the nodes of these graphs: empty, resolving,
\* dangling, both, two that resolve, and one id twice.
PrerequisiteLists ==
    {<<>>, <<"a">>, <<"b">>, <<DanglingId>>, <<DanglingId, "a">>, <<"b", "a">>,
     <<"a", "a">>}

\* data.name and data.component_id of the node of an id.
NameOf(id) ==
    CASE id = "a" -> "Form A"
      [] id = "b" -> "Form B"
      [] id = "c" -> "Form C"

ComponentOf(id) ==
    CASE id = "a" -> "form-def-1"
      [] id = "b" -> "form-def-2"
      [] id = "c" -> "form-def-3"

\* formDefinition of FormFieldsProvider.test.ts.
FormDefinition1 ==
    [id |-> "form-def-1",
     field_schema |->
        [type |-> "object",
         properties |->
            << <<"email", [type |-> "string", title |-> "Email",
                           avantos_type |-> "short-text"]>>,
               <<"name", [type |-> "string", title |-> "Name",
                          avantos_type |-> "short-text"]>> >>]]

\* A definition whose fields have no avantos_type; one has no title and one
\* an empty title.
FormDefinition2 ==
    [id |-> "form-def-2",
     field_schema |->
        [type |-> "object",
         properties |-> << <<"notes", [type |-> "string"]>>,
                           <<"code", [type |-> "string", title |-> ""]>> >>]]

\* The forms of a graph: none, or the two definitions (no graph defines
\* form-def-3).
FormCatalogs == {<<>>, <<FormDefinition1, FormDefinition2>>}

\* graph.nodes in the order of the test graph: nodeA, nodeB, nodeC.
ProviderOrder == <<"a", "b", "c">>

ProviderNodeLists ==
    {[i \in DOMAIN ProviderOrder |->
         FormNodeData(ProviderOrder[i], p[ProviderOrder[i]],
                      NameOf(ProviderOrder[i]), ComponentOf(ProviderOrder[i]), <<>>)] :
        p \in [NodeIds -> PrerequisiteLists]}

\* The name the instance registered by the module is held under.
DefaultInstance == "default"

\* The three register calls of dataSources/index.ts.
DefaultRegistry ==
    MapSet(MapSet(MapSet(<<>>, DirectDependencyFieldsProvider),
                  TransitiveDependencyFieldsProvider),
           GlobalDataProvider(DefaultInstance))

InitProviders ==
    /\ NoHook
    /\ nodes \in ProviderNodeLists
    /\ forms \in FormCatalogs
    /\ op = "none"
    /\ arg = Undefined
    /\ result = [list |-> <<>>]
    /\ run = Idle
    /\ providers = DefaultRegistry
    /\ calls = <<>>
    /\ heap = ModuleHeap
    /\ globals = [name \in {DefaultInstance} |-> NewGlobalDataProvider(Undefined)]

CallGetFormFields(node) ==
    /\ op' = "getFormFields"
    /\ arg' = node
    /\ result' = [list |-> getFormFields(node, Graph)]
    /\ UNCHANGED <<nodes, run, sourceVars, hook, inflight>>

ProviderIsApplicable(provider, node) ==
    /\ op' = "isApplicable"
    /\ arg' = [provider |-> provider.id, node |-> node]
    /\ result' = [value |-> isApplicable(provider, node, Graph)]
    /\ UNCHANGED <<nodes, run, sourceVars, hook, inflight>>

ProviderGetDataSources(provider, node) ==
    /\ op' = "getDataSources"
    /\ arg' = [provider |-> provider.id, node |-> node]
    /\ result' = [list |-> getDataSources(provider, node, Graph)]
    /\ UNCHANGED <<nodes, run, sourceVars, hook, inflight>>

NextProviders ==
    \/ \E node \in Range(nodes) : CallDirectDependencies(node)
    \/ \E node \in Range(nodes) : CallTransitiveDependencies(node)
    \/ \E node \in Range(nodes) : CallAllAncestors(node)
    \/ CallTopologicalSort
    \/ \E node \in Range(nodes) : CallGetFormFields(node)
    \/ \E provider \in Range(providers), node \in Range(nodes) :
           ProviderIsApplicable(provider, node)
    \/ \E provider \in Range(providers), node \in Range(nodes) :
           ProviderGetDataSources(provider, node)
    \/ GetProviders
    \/ \E node \in Range(nodes) : GetAllDataSources(node)

SpecProviders == InitProviders /\ [][NextProviders]_vars

(***************************************************************************)
(* updatePrefillMapping (graph/graphService.ts).  An object used as a      *)
(* table (input_mapping) is the sequence of its [key, value] pairs in      *)
(* insertion order.  A Result is [ok, value] or [ok, error].               *)
(***************************************************************************)
Null == [null |-> TRUE]

\* graph.nodes.findIndex((n) => n.id === nodeId): the first index of the
\* id, or -1.
FindNodeIndex(list, nodeId) ==
    IF \E i \in DOMAIN list : list[i].id = nodeId
    THEN CHOOSE i \in DOMAIN list :
             list[i].id = nodeId /\ \A j \in 1..(i - 1) : list[j].id # nodeId
    ELSE -1

\* object[key] = value: a present key keeps its place, a new one is added last.
ObjectSet(entries, key, value) ==
    IF \E i \in DOMAIN entries : entries[i][1] = key
    THEN [i \in DOMAIN entries |->
             IF entries[i][1] = key THEN <<key, value>> ELSE entries[i]]
    ELSE Append(entries, <<key, value>>)

\* delete object[key]
ObjectDelete(entries, key) == SelectSeq(entries, LAMBDA entry : entry[1] # key)

\* The object literal of lines 71-75: sourceFormId is spread in only when
\* it is truthy, and no other property of the argument is read.
StoredMapping(mapping) ==
    IF Truthy(mapping, "sourceFormId")
    THEN [type |-> mapping.type, sourceFieldId |-> mapping.sourceFieldId,
          sourceFormId |-> mapping.sourceFormId]
    ELSE [type |-> mapping.type, sourceFieldId |-> mapping.sourceFieldId]

\* The value the call resolves to.
updatePrefillMapping(graph, nodeId, fieldId, mapping) ==
    LET nodeIndex == FindNodeIndex(graph.nodes, nodeId)
    IN IF nodeIndex = -1
       THEN [ok |-> FALSE,
             error |-> [name |-> "ApiError",
                        message |-> "Node with id " \o nodeId \o " not found"]]
       ELSE LET input_mapping == graph.nodes[nodeIndex].input_mapping
                updatedMapping ==
                    IF mapping = Null
                    THEN ObjectDelete(input_mapping, fieldId)
                    ELSE ObjectSet(input_mapping, fieldId, StoredMapping(mapping))
            IN [ok |-> TRUE,
                value |-> [graph EXCEPT !.nodes[nodeIndex].input_mapping = updatedMapping]]

\* The writes of lines 68-80 made to the objects of the argument: the graph
\* the caller passed holds what the call returns.
InputAfterUpdateInPlace(graph, nodeId, fieldId, mapping) ==
    LET returned == updatePrefillMapping(graph, nodeId, fieldId, mapping)
    IN IF returned.ok THEN returned.value ELSE graph

\* Lines 61-64 copy the node array, the node, its data and its
\* input_mapping, and lines 68-80 write to the copies: the graph the caller
\* passed, after the call.
InputAfterUpdate(graph, nodeId, fieldId, mapping) == graph

(***************************************************************************)
(* SpecGraph: a caller holds a graph of two nodes, calls                   *)
(* updatePrefillMapping on it and goes on with the graph a successful call *)
(* returned, as the useGraph hook does.                                    *)
(***************************************************************************)
FieldIds == {"email", "name"}

\* Mapping descriptors: of a form field, of global data, of global data
\* with a path, and of global data with an empty source form id.
Mappings ==
    { [type |-> "form_field", sourceFormId |-> "a", sourceFieldId |-> "email"],
      [type |-> "global", sourceFieldId |-> "user_id"],
      [type |-> "global", sourceFieldId |-> "user_id", sourcePath |-> "user-context.user_id"],
      [type |-> "global", sourceFormId |-> "", sourceFieldId |-> "org_id"] }

InitGraph ==
    /\ NoHook
    /\ nodes = << FormNodeData("a", <<>>, "Form A", "form-def-1", <<>>),
                  FormNodeData("b", <<"a">>, "Form B", "form-def-1", <<>>) >>
    /\ forms = <<FormDefinition1>>
    /\ op = "none"
    /\ arg = Undefined
    /\ result = [list |-> <<>>]
    /\ run = Idle
    /\ providers = <<>>
    /\ calls = <<>>
    /\ heap = <<>>
    /\ globals = <<>>

UpdatePrefillMapping(nodeId, fieldId, mapping) ==
    /\ op' = "updatePrefillMapping"
    /\ arg' = [nodeId |-> nodeId, fieldId |-> fieldId, mapping |-> mapping]
    /\ result' = updatePrefillMapping(Graph, nodeId, fieldId, mapping)
    /\ nodes' = InputAfterUpdate(Graph, nodeId, fieldId, mapping).nodes
    /\ forms' = InputAfterUpdate(Graph, nodeId, fieldId, mapping).forms
    /\ UNCHANGED <<run, hook, inflight, providers, calls, heap, globals>>

\* setGraph(updatedGraph): the caller goes on with the returned graph.
SetGraph ==
    /\ op = "updatePrefillMapping"
    /\ result.ok
    /\ nodes' = result.value.nodes
    /\ forms' = result.value.forms
    /\ op' = "setGraph"
    /\ arg' = Undefined
    /\ result' = [list |-> <<>>]
    /\ UNCHANGED <<run, hook, inflight, providers, calls, heap, globals>>

NextGraph ==
    \/ \E nodeId \in Ids, fieldId \in FieldIds,
          mapping \in Mappings \cup {Null} :
           UpdatePrefillMapping(nodeId, fieldId, mapping)
    \/ SetGraph

SpecGraph == InitGraph /\ [][NextGraph]_vars

(***************************************************************************)
(* useGraph (the hook of unnamed/part_001).  hook is the React state       *)
(* [graph, isLoading, error, selectedNode]; inflight holds what has been   *)
(* started and has not resumed yet: a fetch that has not settled, or an    *)
(* updateMapping call suspended at its await, which carries the graph's    *)
(* update it computed and the selectedNode its closure captured.  calls    *)
(* is the history of the calls made on the hook and of the responses.      *)
(* error, a string or null, is [message] or Null.                          *)
(***************************************************************************)
MaxHookCalls == 3

\* createMockGraph() cut to two nodes, and the same blueprint once the
\* server holds a mapping of node b.
MockGraph ==
    [nodes |-> << FormNodeData("a", <<>>, "Form A", "form-def-1", <<>>),
                  FormNodeData("b", <<"a">>, "Form B", "form-def-1", <<>>) >>,
     forms |-> <<FormDefinition1>>]

SavedGraph ==
    [MockGraph EXCEPT !.nodes[2].input_mapping =
        << <<"email", [type |-> "form_field", sourceFormId |-> "a",
                       sourceFieldId |-> "email"]>> >>]

\* What fetchBlueprintGraph() resolves to: the body of a response that is
\* ok, or an error (the ApiError of a response that is not ok; a
\* NetworkError reaches the hook the same way, by its message).
Responses ==
    { [ok |-> TRUE, value |-> MockGraph],
      [ok |-> TRUE, value |-> SavedGraph],
      [ok |-> FALSE,
       error |-> [name |-> "ApiError",
                  message |-> "API request failed: Not Found"]] }

\* The four useState calls of the first render.
UseState ==
    [graph |-> Null, isLoading |-> TRUE, error |-> Null, selectedNode |-> Null]

\* The calls of loadGraph and updateMapping made so far.
Issued ==
    SelectSeq(calls, LAMBDA c : c.call \in {"loadGraph", "updateMapping"})

\* loadGraph, up to the fetch: setIsLoading(true); setError(null).
loadGraphStarts(state) == [state EXCEPT !.isLoading = TRUE, !.error = Null]

\* .map((data) => { setGraph(data); setIsLoading(false); })
loadGraphMap(state, data) ==
    [state EXCEPT !.graph = data, !.isLoading = FALSE]

\* .mapErr((err) => { setError(err.message); setIsLoading(false); })
loadGraphMapErr(state, err) ==
    [state EXCEPT !.error = [message |-> err.message], !.isLoading = FALSE]

\* updatedGraph.nodes.find((n) => n.id === nodeId)
FindNode(list, nodeId) ==
    IF FindNodeIndex(list, nodeId) = -1
    THEN Undefined
    ELSE list[FindNodeIndex(list, nodeId)]

\* The map callback of updateMapping: selectedNode is the constant of the
\* render the callback was created in.
updateMappingMap(state, selectedNode, nodeId, updatedGraph) ==
    LET updatedNode == FindNode(updatedGraph.nodes, nodeId)
    IN IF /\ selectedNode # Null
          /\ selectedNode.id = nodeId
          /\ updatedNode # Undefined
       THEN [state EXCEPT !.graph = updatedGraph, !.selectedNode = updatedNode]
       ELSE [state EXCEPT !.graph = updatedGraph]

\* A mapErr callback that also drops the graph.
updateMappingMapErrDropsGraph(state, err) ==
    [state EXCEPT !.error = [message |-> err.message], !.graph = Null]

\* .mapErr((err) => { setError(err.message); })
updateMappingMapErr(state, err) == [state EXCEPT !.error = [message |-> err.message]]

InitHook ==
    /\ hook = UseState
    /\ inflight = <<>>
    /\ nodes = MockGraph.nodes
    /\ forms = MockGraph.forms
    /\ op = "none"
    /\ arg = Undefined
    /\ result = [list |-> <<>>]
    /\ run = Idle
    /\ providers = <<>>
    /\ calls = <<>>
    /\ heap = <<>>
    /\ globals = <<>>

\* loadGraph(): the two setters, then the request goes out.
LoadGraph ==
    /\ hook' = loadGraphStarts(hook)
    /\ inflight' = Append(inflight, [kind |-> "fetch", n |-> Len(Issued) + 1])
    /\ calls' = Append(calls, [call |-> "loadGraph", n |-> Len(Issued) + 1])
    /\ op' = "loadGraph"
    /\ UNCHANGED <<nodes, arg, result, run, forms, providers, heap, globals>>

\* useEffect(() => { loadGraph(); }, [loadGraph]) after the first render.
Mount ==
    /\ calls = <<>>
    /\ LoadGraph

\* refetch: loadGraph, called by the component.
Refetch ==
    /\ calls # <<>>
    /\ Len(Issued) < MaxHookCalls
    /\ LoadGraph

\* A request settles, in whatever order the responses arrive, and the map
\* or the mapErr callback of its loadGraph call runs.
FetchSettles(i, response) ==
    /\ inflight[i].kind = "fetch"
    /\ hook' = IF response.ok
               THEN loadGraphMap(hook, response.value)
               ELSE loadGraphMapErr(hook, response.error)
    /\ inflight' = SubSeq(inflight, 1, i - 1) \o SubSeq(inflight, i + 1, Len(inflight))
    /\ calls' = Append(calls, [call |-> "settled", n |-> inflight[i].n,
                               response |-> response])
    /\ op' = "settled"
    /\ UNCHANGED <<nodes, arg, result, run, forms, providers, heap, globals>>

\* selectNode(node)
SelectNode(node) ==
    /\ calls # <<>>
    /\ hook' = [hook EXCEPT !.selectedNode = node]
    /\ op' = "selectNode"
    /\ UNCHANGED <<nodes, arg, result, run, forms, providers, calls, heap,
                   globals, inflight>>

\* updateMapping(nodeId, fieldId, mapping), up to its await: it returns at
\* once without a graph, and otherwise computes the update from the graph
\* of its closure and is suspended.
UpdateMapping(nodeId, fieldId, mapping) ==
    /\ calls # <<>>
    /\ Len(Issued) < MaxHookCalls
    /\ inflight' =
         IF hook.graph = Null
         THEN inflight
         ELSE Append(inflight,
                     [kind |-> "update", n |-> Len(Issued) + 1,
                      nodeId |-> nodeId,
                      result |-> updatePrefillMapping(hook.graph, nodeId,
                                                      fieldId, mapping),
                      selectedNode |-> hook.selectedNode])
    /\ calls' = Append(calls, [call |-> "updateMapping", n |-> Len(Issued) + 1,
                               graph |-> hook.graph, nodeId |-> nodeId,
                               fieldId |-> fieldId, mapping |-> mapping])
    /\ op' = "updateMapping"
    /\ UNCHANGED <<nodes, arg, result, run, forms, providers, heap, globals,
                   hook>>

\* The index in inflight of the updateMapping call that resumes next: the
\* calls resume in the order they were suspended in.
NextToResume ==
    CHOOSE i \in DOMAIN inflight :
        /\ inflight[i].kind = "update"
        /\ \A j \in 1..(i - 1) : inflight[j].kind # "update"

\* updateMapping after its await: result.map(...).mapErr(...).
UpdateMappingResumes ==
    /\ \E i \in DOMAIN inflight : inflight[i].kind = "update"
    /\ LET call == inflight[NextToResume]
       IN hook' = IF call.result.ok
                  THEN updateMappingMap(hook, call.selectedNode,
                                        call.nodeId, call.result.value)
                  ELSE updateMappingMapErr(hook, call.result.error)
    /\ inflight' = SubSeq(inflight, 1, NextToResume - 1)
                     \o SubSeq(inflight, NextToResume + 1, Len(inflight))
    /\ op' = "resumed"
    /\ UNCHANGED <<nodes, arg, result, run, forms, providers, calls, heap,
                   globals>>

\* The nodes a component can pass to selectNode: those of the graph it
\* renders, or null.
Selectable ==
    IF hook.graph = Null THEN {Null} ELSE Range(hook.graph.nodes) \cup {Null}

\* The arguments the calls of updateMapping are made with: two fields of
\* node b mapped, one of them cleared, and a node the graph does not have.
UpdateCalls ==
    LET source == [type |-> "form_field", sourceFormId |-> "a",
                   sourceFieldId |-> "email"]
    IN { [nodeId |-> "b", fieldId |-> "email", mapping |-> source],
         [nodeId |-> "b", fieldId |-> "name", mapping |-> source],
         [nodeId |-> "b", fieldId |-> "email", mapping |-> Null],
         [nodeId |-> DanglingId, fieldId |-> "email", mapping |-> source] }

NextHook ==
    \/ Mount
    \/ Refetch
    \/ \E i \in DOMAIN inflight, response \in Responses :
           FetchSettles(i, response)
    \/ \E node \in Selectable : SelectNode(node)
    \/ \E c \in UpdateCalls : UpdateMapping(c.nodeId, c.fieldId, c.mapping)
    \/ UpdateMappingResumes

SpecHook == InitHook /\ [][NextHook]_vars

\* Every request settles and every suspended call resumes.
Settles ==
    \/ \E i \in DOMAIN inflight, response \in Responses :
           FetchSettles(i, response)
    \/ UpdateMappingResumes

SpecHookSettling == SpecHook /\ WF_vars(Settles)

(***************************************************************************)
(* Notions the properties are stated with.  They are defined from the      *)
(* prerequisite relation alone, not from the traversals above.             *)
(***************************************************************************)
IdSet(list) == Range(IdsOf(list))

NoRepeatedId(list) == \A i, j \in DOMAIN list : list[i].id = list[j].id => i = j

\* The index built from the caller's node list.
Index == createNodeMap(nodes)

\* The keys among the prerequisite ids of the node with key k.
ResolvablePrereqs(nodeMap, k) == Range(nodeMap[k].prerequisites) \cap DOMAIN nodeMap

\* The least set that contains S and, with every key in `through`, the
\* resolvable prerequisites of that key.
RECURSIVE Closure(_, _, _)
Closure(nodeMap, through, S) ==
    LET more == S \cup UNION {ResolvablePrereqs(nodeMap, k) : k \in S \cap through}
    IN IF more = S THEN S ELSE Closure(nodeMap, through, more)

\* The keys reachable from node by one or more prerequisite hops through
\* resolvable nodes.
Reachable(node, nodeMap) ==
    Closure(nodeMap, DOMAIN nodeMap, Range(node.prerequisites) \cap DOMAIN nodeMap)

\* The keys of the nodes that lie on a prerequisite cycle (self-loops included).
OnCycle(nodeMap) == {k \in DOMAIN nodeMap : k \in Reachable(nodeMap[k], nodeMap)}

Acyclic(list) == OnCycle(createNodeMap(list)) = {}

\* The keys reachable from node by a chain of resolvable prerequisites none
\* of whose intermediate nodes lies on a cycle.
ReachableOffCycles(node, nodeMap) ==
    Closure(nodeMap, DOMAIN nodeMap \ OnCycle(nodeMap),
            Range(node.prerequisites) \cap DOMAIN nodeMap)

\* The position of the node with the given id in a list, 0 when absent.
Position(list, id) ==
    IF \E i \in DOMAIN list : list[i].id = id
    THEN CHOOSE i \in DOMAIN list : list[i].id = id
    ELSE 0

\* The prerequisite ids of a list looked up one by one, from the left.
RECURSIVE Resolved(_, _)
Resolved(prereqs, nodeMap) ==
    IF prereqs = <<>> THEN <<>>
    ELSE (IF Head(prereqs) \in DOMAIN nodeMap
          THEN <<nodeMap[Head(prereqs)]>> ELSE <<>>)
         \o Resolved(Tail(prereqs), nodeMap)

(***************************************************************************)
(* Properties of the resolver, checked under Spec.                         *)
(***************************************************************************)

\* C1: for every graph and node N, the direct and the transitive list of
\* getAllDependencies(N, index) have no node id in common.
C1_DirectTransitiveDisjoint ==
    op = "getAllDependencies" =>
        IdSet(result.direct) \cap IdSet(result.transitive) = {}

\* C1 happens: N has a direct dependency that another visited node lists
\* again as its own prerequisite, on a graph with a cycle or a dangling id.
C1_Witness ==
    /\ op = "getAllDependencies"
    /\ result.direct # <<>>
    /\ \E k \in Reachable(arg, Index) \ {arg.id} :
           (ResolvablePrereqs(Index, k) \cap IdSet(result.direct)) \ {k} # {}
    /\ \/ ~Acyclic(nodes)
       \/ \E i \in DOMAIN nodes : DanglingId \in Range(nodes[i].prerequisites)

\* C2: for every graph (cycles, self-references and dangling ids included)
\* and node N, the ids of getDirectDependencies(N) united with the ids of
\* getTransitiveDependencies(N) are the ids of getAllAncestors(N).
C2_UnionIsAncestors ==
    op = "getAllAncestors" =>
        IdSet(result.list) =
            IdSet(getDirectDependencies(arg, Index))
                \cup IdSet(getTransitiveDependencies(arg, Index))

\* C3: topologicalSort returns a permutation of its input: every input node
\* exactly once, none omitted, none added.
C3_SortIsPermutation ==
    op = "topologicalSort" =>
        /\ Len(result.list) = Len(nodes)
        /\ \A i \in DOMAIN nodes :
               Cardinality({j \in DOMAIN result.list : result.list[j] = nodes[i]}) = 1

\* C3 happens: a cyclic input of three nodes was sorted.
C3_Witness ==
    /\ op = "topologicalSort"
    /\ Len(nodes) >= 3
    /\ ~Acyclic(nodes)
    /\ result.list # nodes

\* C4: on an acyclic input, in any input order, topologicalSort places each
\* node after every one of its prerequisites that resolves; a dangling
\* prerequisite constrains nothing.
C4_SortRespectsPrerequisites ==
    (op = "topologicalSort" /\ Acyclic(nodes)) =>
        \A i, j \in DOMAIN result.list :
            result.list[j].id \in Range(result.list[i].prerequisites) => j < i

\* C4 happens: an acyclic input that lists a dependent before its
\* prerequisite, and has a dangling prerequisite, was sorted.
C4_Witness ==
    /\ op = "topologicalSort"
    /\ Acyclic(nodes)
    /\ \E i, j \in DOMAIN nodes :
           i < j /\ nodes[j].id \in Range(nodes[i].prerequisites)
    /\ \E i \in DOMAIN nodes : DanglingId \in Range(nodes[i].prerequisites)

\* C5, as stated: on every input, cyclic ones included, a node N without
\* prerequisites comes before every node that lists N directly or indirectly.
C5_RootBeforeAllDependents ==
    op = "topologicalSort" =>
        \A i, j \in DOMAIN result.list :
            (result.list[i].prerequisites = <<>>
                /\ result.list[i].id \in Reachable(result.list[j], Index)) => i < j

\* C5, amended: a node N without prerequisites comes before every node that
\* lists N directly, and before every node that reaches N through a chain of
\* resolvable prerequisites whose intermediate nodes lie on no cycle (so
\* before all its dependents when the input is acyclic).
C5_RootBeforeDependentsOffCycles ==
    op = "topologicalSort" =>
        \A i, j \in DOMAIN result.list :
            (result.list[i].prerequisites = <<>>
                /\ result.list[i].id \in ReachableOffCycles(result.list[j], Index)) => i < j

\* C5 happens: a cyclic input was sorted in which a node on the cycle lists a
\* node without prerequisites, and that node comes later in the input.
C5_Witness ==
    /\ op = "topologicalSort"
    /\ ~Acyclic(nodes)
    /\ \E i, j \in DOMAIN nodes :
           /\ j < i
           /\ nodes[i].prerequisites = <<>>
           /\ nodes[j].id \in OnCycle(Index)
           /\ nodes[i].id \in Range(nodes[j].prerequisites)

\* C6: getTransitiveDependencies(N) returns exactly the nodes of the index
\* reachable from N through resolvable nodes, without the nodes whose id is
\* in N's own prerequisite list and without N.
C6_TransitiveIsReachableMinusDirect ==
    op = "getTransitiveDependencies" =>
        /\ IdSet(result.list) =
               (Reachable(arg, Index) \ Range(arg.prerequisites)) \ {arg.id}
        /\ \A i \in DOMAIN result.list : result.list[i] = Index[result.list[i].id]

\* C6 happens: N lies on a cycle, so N is reachable from N, and N has a
\* transitive dependency.
C6_Witness ==
    /\ op = "getTransitiveDependencies"
    /\ arg.id \in Reachable(arg, Index)
    /\ result.list # <<>>

\* C7: getAllAncestors(N) returns exactly the nodes of the index reachable
\* from N through resolvable nodes other than N, each once; N is never in it.
C7_AncestorsAreReachable ==
    op = "getAllAncestors" =>
        /\ IdSet(result.list) = Reachable(arg, Index) \ {arg.id}
        /\ NoRepeatedId(result.list)
        /\ \A i \in DOMAIN result.list : result.list[i] = Index[result.list[i].id]

\* C7 happens: N lies on a cycle and has an ancestor that two of the visited
\* nodes list.
C7_Witness ==
    /\ op = "getAllAncestors"
    /\ arg.id \in Reachable(arg, Index)
    /\ \E k \in IdSet(result.list) :
           Cardinality({m \in DOMAIN Index : k \in ResolvablePrereqs(Index, m)}) >= 2

\* C8: the list returned by getTransitiveDependencies holds no node id twice,
\* also when a node is reachable by several paths and enqueued several times.
C8_TransitiveHasNoDuplicates ==
    op = "getTransitiveDependencies" => NoRepeatedId(result.list)

\* C8 happens: the diamond; D's transitive dependency A is listed by both of
\* D's direct dependencies.
C8_Witness ==
    /\ op = "getTransitiveDependencies"
    /\ \E k \in IdSet(result.list) :
           Cardinality({m \in IdSet(getDirectDependencies(arg, Index)) \ {arg.id} :
                            k \in ResolvablePrereqs(Index, m)}) >= 2

\* C9: getDirectDependencies(N, index) is N's prerequisite list looked up in
\* the index, in the declared order, the ids that do not resolve dropped and
\* nothing else changed.
C9_DirectIsResolvedPrerequisites ==
    op = "getDirectDependencies" =>
        result.list = Resolved(arg.prerequisites, Index)

\* C9 happens: a prerequisite list with a dangling id before an id that
\* resolves.
C9_Witness ==
    /\ op = "getDirectDependencies"
    /\ \E i, j \in DOMAIN arg.prerequisites :
           /\ i < j
           /\ arg.prerequisites[i] = DanglingId
           /\ arg.prerequisites[j] \in DOMAIN Index

(***************************************************************************)
(* Termination, checked under SpecRun.                                     *)
(***************************************************************************)
\* The activations of visit on the call stack are of pairwise distinct
\* nodes, so the recursion is never deeper than the input is long.
SortDepthBounded ==
    Running("topologicalSort") => Len(run.s.stack) <= Len(nodes)

\* C10: on every finite graph, with cycles, self-loops and dangling ids,
\* every call of getDirectDependencies, getTransitiveDependencies,
\* getAllAncestors and topologicalSort that is begun returns a list; the
\* recursion of topologicalSort stays within the length of its input.
C10_EveryCallReturns ==
    /\ []SortDepthBounded
    /\ (run # Idle) ~> (run = Idle)

\* C10 happens: a call has returned on a graph with a cycle and a dangling
\* prerequisite id.
C10_Witness ==
    /\ run = Idle
    /\ op \in {"getTransitiveDependencies", "getAllAncestors", "topologicalSort"}
    /\ ~Acyclic(nodes)
    /\ \E i \in DOMAIN nodes : DanglingId \in Range(nodes[i].prerequisites)


(***************************************************************************)
(* The registry.                                                           *)
(***************************************************************************)
RECURSIVE Concatenation(_)
Concatenation(lists) ==
    IF lists = <<>> THEN <<>> ELSE Head(lists) \o Concatenation(Tail(lists))

\* What one provider of the list adds to the result.
Contribution(provider, node, graph) ==
    IF isApplicable(provider, node, graph)
    THEN getDataSources(provider, node, graph)
    ELSE <<>>

GroupIds(groups) == {groups[i].id : i \in DOMAIN groups}

\* C11: getAllDataSources(node, graph) is the concatenation, over the
\* providers of getProviders() in that order, of the groups of each
\* applicable provider; no group of an inapplicable provider is in it.
C11_AllDataSourcesIsConcatenation ==
    op = "getAllDataSources" =>
        LET list == getProviders(providers)
        IN /\ result.list =
                  Concatenation([i \in DOMAIN list |-> Contribution(list[i], arg, Graph)])
           /\ \A i \in DOMAIN list :
                  ~isApplicable(list[i], arg, Graph) =>
                      GroupIds(getDataSources(list[i], arg, Graph))
                          \cap GroupIds(result.list) = {}

\* A call with an applicable provider of two groups behind another
\* applicable provider, registered in the opposite order, and an
\* inapplicable provider that has groups.
C11_Witness ==
    /\ op = "getAllDataSources"
    /\ Len(providers) = 3
    /\ getProviders(providers) # providers
    /\ Len(result.list) = 3
    /\ \E i \in DOMAIN providers :
          /\ ~isApplicable(providers[i], arg, Graph)
          /\ getDataSources(providers[i], arg, Graph) # <<>>

\* C12: the list getProviders() returns is sorted by non-decreasing
\* priority, whatever register and unregister calls came before.
C12_ProvidersSortedByPriority ==
    op = "getProviders" =>
        \A i, j \in DOMAIN result.list :
            i < j => result.list[i].priority <= result.list[j].priority

\* A list returned after a higher priority was registered before a lower one.
C12_Witness ==
    /\ op = "getProviders"
    /\ Len(providers) >= 2
    /\ \E i, j \in DOMAIN providers :
          i < j /\ providers[i].priority > providers[j].priority
    /\ result.list # providers

\* The last call made about an id, 0 when there was none.
LastCall(id) ==
    LET about == {i \in DOMAIN calls : calls[i].id = id}
    IN IF about = {} THEN 0 ELSE CHOOSE i \in about : \A j \in about : j <= i

\* The id was registered and not unregistered afterwards.
IsRegistered(id) == LastCall(id) # 0 /\ calls[LastCall(id)].call = "register"

CalledIds == {calls[i].id : i \in DOMAIN calls}

C13_TableIsLastRegistrations ==
    LET list == getProviders(providers)
    IN /\ \A i \in DOMAIN list : IsRegistered(list[i].id)
       /\ \A id \in CalledIds :
              IsRegistered(id) =>
                  /\ Cardinality({i \in DOMAIN list : list[i].id = id}) = 1
                  /\ \E i \in DOMAIN list : list[i] = calls[LastCall(id)].provider

C13_UnknownUnregisterChangesNothing ==
    (calls' # calls /\ op' = "unregister" /\ ~IsRegistered(arg'.id)) =>
        /\ providers' = providers
        /\ result' = [list |-> <<>>]

\* C13: getProviders() holds, for each id registered and not unregistered
\* afterwards, exactly one provider, the one most recently registered under
\* the id, and nothing else; unregister of an id that is not registered
\* leaves the table as it was and completes.
C13_LastRegistrationWins ==
    /\ []C13_TableIsLastRegistrations
    /\ [][C13_UnknownUnregisterChangesNothing]_vars

\* An id registered twice with different providers, then an unregister of
\* an id that is not registered.
C13_Witness ==
    /\ Len(calls) = 3
    /\ calls[1].call = "register"
    /\ calls[2].call = "register"
    /\ calls[1].id = calls[2].id
    /\ calls[1].provider # calls[2].provider
    /\ calls[3].call = "unregister"
    /\ calls[3].id # calls[1].id
    /\ op = "unregister"
    /\ Len(providers) = 1


(***************************************************************************)
(* The global provider.                                                    *)
(***************************************************************************)
\* The groups getDataSources of the instance held under name returns.
GroupsIn(instances, arrays, name) ==
    GlobalGetDataSources(instances[name], GlobalMockNode, Graph, arrays)

GroupsOf(name) == GroupsIn(globals, heap, name)

\* The same after the step.
GroupsAfter(name) == GroupsIn(globals', heap', name)

\* The groups of the default table as the module defines it.
DefaultGroups == [i \in DOMAIN DefaultSources |-> GlobalGroup(DefaultSources[i])]

IsTableCall == calls' # calls /\ op' \in {"addSource", "removeSource"}

C14_TableCallKeepsOtherInstances ==
    IsTableCall =>
        \A name \in DOMAIN globals \ {arg'.instance} : GroupsAfter(name) = GroupsOf(name)

C14_NewDefaultHasDefaultGroups ==
    (op' = "new" /\ globals' # globals
        /\ globals'[arg'.instance] = NewGlobalDataProvider(Undefined)) =>
        GroupsAfter(arg'.instance) = DefaultGroups

\* C14: the source table of a GlobalDataProvider is scoped to the instance:
\* an addSource or removeSource call on one instance leaves the groups of
\* every other instance as they were, and an instance created with the
\* default table after such calls returns the groups of the default table.
C14_TableScopedToInstance ==
    /\ [][C14_TableCallKeepsOtherInstances]_vars
    /\ [][C14_NewDefaultHasDefaultGroups]_vars

AllGlobalGroups(groups) == \A i \in DOMAIN groups : groups[i].type = "global"

\* C17: the global provider is applicable for every node and graph, and
\* getDataSources returns, whatever node and graph it is called with, one
\* group per entry of the instance's table in table order, all of type
\* global.
C17_GlobalGroupsDependOnTableOnly ==
    /\ op = "isApplicable" => result.value = TRUE
    /\ op = "getDataSources" =>
          LET table == heap[globals[arg.instance].sources]
          IN /\ Len(result.list) = Len(table)
             /\ \A i \in DOMAIN table : result.list[i].id = "global-" \o table[i].id
             /\ AllGlobalGroups(result.list)
             /\ \A node \in Range(nodes), graph \in GlobalGraphs :
                    GlobalGetDataSources(globals[arg.instance], node, graph, heap)
                        = result.list

\* Groups returned for the node without prerequisites and the empty graph
\* by an instance whose table has entries.
C17_Witness ==
    /\ op = "getDataSources"
    /\ arg.node.prerequisites = <<>>
    /\ arg.graph.nodes = <<>>
    /\ Len(result.list) >= 2
    /\ Len(calls) >= 1

C18_AddSourceAppendsGroup ==
    (calls' # calls /\ op' = "addSource") =>
        GroupsAfter(arg'.instance) =
            Append(GroupsOf(arg'.instance), GlobalGroup(arg'.source))

C18_RemoveSourceFiltersGroups ==
    (calls' # calls /\ op' = "removeSource") =>
        /\ GroupsAfter(arg'.instance) =
               SelectSeq(GroupsOf(arg'.instance),
                         LAMBDA group : group.id # "global-" \o arg'.id)
        /\ (\A i \in DOMAIN heap[globals[arg'.instance].sources] :
                heap[globals[arg'.instance].sources][i].id # arg'.id)
               => GroupsAfter(arg'.instance) = GroupsOf(arg'.instance)

\* C18: after addSource(s) the groups of the instance are the previous
\* groups followed by one group for s; after removeSource(id) they are the
\* previous groups without every group of source id, the others in their
\* order; removeSource of an id the table does not hold changes nothing.
C18_AddAppendsRemoveFilters ==
    /\ [][C18_AddSourceAppendsGroup]_vars
    /\ [][C18_RemoveSourceFiltersGroups]_vars

\* A source added twice to a table that had entries, then removed: both of
\* its groups are gone and the earlier groups remain.
C18_Witness ==
    /\ Len(calls) = 3
    /\ calls[1].call = "addSource"
    /\ calls[2].call = "addSource"
    /\ calls[3].call = "removeSource"
    /\ calls[3].id = calls[1].id
    /\ op = "removeSource"
    /\ Len(GroupsOf(TableOwner)) >= 2


(***************************************************************************)
(* The providers of form fields.                                           *)
(***************************************************************************)
\* Every item of the group points at (the dependency's node id, field id)
\* of a field of the dependency, in the order of getFormFields.
ItemsPointAt(group, dependency) ==
    LET fields == getFormFields(dependency, Graph)
    IN /\ Len(group.items) = Len(fields)
       /\ \A k \in DOMAIN fields :
              /\ group.items[k].type = "form_field"
              /\ group.items[k].sourceId = dependency.id
              /\ group.items[k].fieldId = fields[k].id
              /\ group.items[k].id = dependency.id \o ":" \o fields[k].id

\* One group per dependency, in the order of the dependencies.
GroupsFollow(groups, dependencies, description) ==
    /\ Len(groups) = Len(dependencies)
    /\ \A i \in DOMAIN dependencies :
           /\ groups[i].id = "form-" \o dependencies[i].id
           /\ groups[i].type = "form"
           /\ groups[i].description = description
           /\ ItemsPointAt(groups[i], dependencies[i])

AllDangling(node) ==
    /\ node.prerequisites # <<>>
    /\ \A i \in DOMAIN node.prerequisites : node.prerequisites[i] \notin IdSet(nodes)

\* C15: the direct-dependency provider is applicable exactly when the
\* prerequisite list of the node is non-empty, whether or not its ids
\* resolve; getDataSources returns one group per node of
\* getDirectDependencies(node), in that order, whose items point at the
\* dependency's node id and a field id with type form_field; when every
\* prerequisite id is dangling it is applicable and returns no group.
C15_DirectProviderFollowsPrerequisites ==
    /\ (op = "isApplicable" /\ arg.provider = "direct-dependencies") =>
           /\ result.value = (arg.node.prerequisites # <<>>)
           /\ AllDangling(arg.node) =>
                  /\ result.value = TRUE
                  /\ DirectGetDataSources(arg.node, Graph) = <<>>
    /\ (op = "getDataSources" /\ arg.provider = "direct-dependencies") =>
           /\ GroupsFollow(result.list, getDirectDependencies(arg.node, Index),
                           "Direct dependency")
           /\ AllDangling(arg.node) => result.list = <<>>

\* Groups of a node that lists a dangling id and a node whose form has
\* fields.
C15_Witness ==
    /\ op = "getDataSources"
    /\ arg.provider = "direct-dependencies"
    /\ Len(arg.node.prerequisites) = 2
    /\ Len(result.list) = 1
    /\ Len(result.list[1].items) = 2

\* C16: the transitive-dependency provider is applicable exactly when
\* getTransitiveDependencies(node) is non-empty, which is exactly when its
\* getDataSources returns a group; getDataSources returns one group per
\* transitive dependency in the order of getTransitiveDependencies, each
\* described as 'Transitive dependency'.
C16_TransitiveProviderFollowsTransitive ==
    /\ (op = "isApplicable" /\ arg.provider = "transitive-dependencies") =>
           /\ result.value = (getTransitiveDependencies(arg.node, Index) # <<>>)
           /\ result.value = (Len(TransitiveGetDataSources(arg.node, Graph)) >= 1)
    /\ (op = "getDataSources" /\ arg.provider = "transitive-dependencies") =>
           GroupsFollow(result.list, getTransitiveDependencies(arg.node, Index),
                        "Transitive dependency")

\* The provider found applicable for a node.
C16_Witness ==
    /\ op = "isApplicable"
    /\ arg.provider = "transitive-dependencies"
    /\ result.value = TRUE
    /\ Len(TransitiveGetDataSources(arg.node, Graph)) >= 1

(***************************************************************************)
(* The update of a mapping.                                                *)
(***************************************************************************)
\* The mapping a node holds for a field, Undefined when it holds none.
MappingOf(node, fieldId) ==
    IF \E i \in DOMAIN node.input_mapping : node.input_mapping[i][1] = fieldId
    THEN node.input_mapping[CHOOSE i \in DOMAIN node.input_mapping :
                                node.input_mapping[i][1] = fieldId][2]
    ELSE Undefined

MappedFields(node) == {node.input_mapping[i][1] : i \in DOMAIN node.input_mapping}

\* The two nodes are the same but for their mapping of the field.
SameButField(before, after, fieldId) ==
    /\ [after EXCEPT !.input_mapping = before.input_mapping] = before
    /\ \A other \in (MappedFields(before) \cup MappedFields(after)) \ {fieldId} :
           MappingOf(after, other) = MappingOf(before, other)

UpdateKeepsTheRest ==
    (op' = "updatePrefillMapping") =>
        /\ nodes' = nodes
        /\ forms' = forms
        /\ result'.ok =>
               /\ result'.value.forms = forms
               /\ Len(result'.value.nodes) = Len(nodes)
               /\ \A i \in DOMAIN nodes :
                      IF nodes[i].id = arg'.nodeId
                      THEN SameButField(nodes[i], result'.value.nodes[i], arg'.fieldId)
                      ELSE result'.value.nodes[i] = nodes[i]

ReadingCalls ==
    {"getDirectDependencies", "getTransitiveDependencies", "getAllAncestors",
     "topologicalSort", "getFormFields", "getAllDataSources"}

InputsUnchanged ==
    (op' \in ReadingCalls) =>
        /\ nodes' = nodes
        /\ \A i \in DOMAIN nodes : nodes'[i].prerequisites = nodes[i].prerequisites
        /\ createNodeMap(nodes') = createNodeMap(nodes)
        /\ forms' = forms
        /\ providers' = providers

NodeOfId(list, nodeId) == list[FindNodeIndex(list, nodeId)]

\* A descriptor of one of the two kinds: a form-field mapping with a source
\* node id and a source field id, or a global mapping with a source field id
\* and possibly a path.
IsDescriptor(mapping) ==
    \/ /\ mapping.type = "form_field"
       /\ Truthy(mapping, "sourceFormId")
       /\ ~Has(mapping, "sourcePath")
    \/ /\ mapping.type = "global"
       /\ ~Has(mapping, "sourceFormId")

\* C21: after a successful update of field fieldId of node nodeId with a
\* mapping descriptor m, the mapping the returned graph stores for fieldId
\* equals m; after a successful update with null the node has no mapping for
\* fieldId.
C21_StoredMappingIsDescriptor ==
    (op = "updatePrefillMapping" /\ result.ok) =>
        LET stored == MappingOf(NodeOfId(result.value.nodes, arg.nodeId), arg.fieldId)
        IN /\ arg.mapping = Null => stored = Undefined
           /\ (arg.mapping # Null /\ IsDescriptor(arg.mapping)) => stored = arg.mapping

(***************************************************************************)
(* The fields of a form.                                                   *)
(***************************************************************************)
DefinitionsOf(node) == {i \in DOMAIN forms : forms[i].id = node.component_id}

\* The schema of the first definition of the node's form-definition id.
SchemaOf(node) ==
    forms[CHOOSE i \in DefinitionsOf(node) : \A j \in DefinitionsOf(node) : i <= j]
        .field_schema.properties

BuiltInGroups(node) ==
    DirectGetDataSources(node, Graph)
        \o TransitiveGetDataSources(node, Graph)
        \o DefaultGroups

DistinctGroupIds(groups) ==
    \A i, j \in DOMAIN groups : groups[i].id = groups[j].id => i = j

\* C30 as stated: with the three providers of the module registered, for
\* every graph with unique node ids and every node, getAllDataSources returns
\* the direct-dependency groups, then the transitive-dependency groups, then
\* the global groups, and no two groups of the result have the same id.
C30_BuiltInGroupsInOrderAndDistinct ==
    (op = "getAllDataSources" /\ NoRepeatedId(nodes)) =>
        /\ result.list = BuiltInGroups(arg)
        /\ DistinctGroupIds(result.list)

\* C30, amended: the same order; the group ids are distinct when the
\* prerequisite list of the node names no node of the graph twice, and a
\* node named more than once has one group per occurrence.
C30_BuiltInGroupsInOrder ==
    (op = "getAllDataSources" /\ NoRepeatedId(nodes)) =>
        /\ result.list = BuiltInGroups(arg)
        /\ NoRepeatedId(Resolved(arg.prerequisites, Index))
               => DistinctGroupIds(result.list)
        /\ \A k \in IdSet(nodes) :
               Cardinality({i \in DOMAIN result.list :
                               /\ result.list[i].id = "form-" \o k
                               /\ result.list[i].description = "Direct dependency"})
                   = Cardinality({i \in DOMAIN arg.prerequisites :
                                     arg.prerequisites[i] = k})

\* Groups of a direct dependency, of a transitive dependency and of the
\* default table in one result.
C30_Witness ==
    /\ op = "getAllDataSources"
    /\ DirectGetDataSources(arg, Graph) # <<>>
    /\ TransitiveGetDataSources(arg, Graph) # <<>>
    /\ Len(result.list) = Len(DefaultGroups) + 2
    /\ DistinctGroupIds(result.list)

(***************************************************************************)
(* The diagnostic of the sort.                                             *)
(***************************************************************************)
\* C25: topologicalSort writes its 'Cycle detected' warning at least once
\* when the resolvable prerequisite relation of the input nodes has a cycle
\* (self-loops included) and never when it has none; in both cases it
\* returns a list.
C25_WarningIffCycle ==
    op = "topologicalSort" =>
        /\ (result.warnings >= 1) <=> ~Acyclic(nodes)
        /\ Len(result.list) = Len(nodes)

\* A sort of nodes with a cycle of two nodes and no self-loop: the warning
\* is written and three nodes are returned.
C25_Witness ==
    /\ op = "topologicalSort"
    /\ result.warnings >= 1
    /\ \A i \in DOMAIN nodes : nodes[i].id \notin Range(nodes[i].prerequisites)
    /\ Len(result.list) = 3

(***************************************************************************)
(* The order of the transitive dependencies.                               *)
(***************************************************************************)
\* The prerequisite ids of the nodes of the frontier that resolve.
PrereqsOf(nodeMap, frontier) ==
    UNION {Range(nodeMap[k].prerequisites) : k \in frontier \cap DOMAIN nodeMap}

\* The least number of prerequisite hops in which id k is reached from a
\* frontier that is one hop away; k is reachable.
RECURSIVE HopsFrom(_, _, _, _)
HopsFrom(nodeMap, frontier, seen, k) ==
    IF k \in frontier \/ frontier = {} THEN 1
    ELSE 1 + HopsFrom(nodeMap, PrereqsOf(nodeMap, frontier) \ seen,
                      seen \cup PrereqsOf(nodeMap, frontier), k)

Hops(node, nodeMap, k) ==
    HopsFrom(nodeMap, Range(node.prerequisites), Range(node.prerequisites), k)

\* The ids of a list that are not in seen, each at its first occurrence.
RECURSIVE FirstOccurrences(_, _)
FirstOccurrences(ids, seen) ==
    IF ids = <<>> THEN <<>>
    ELSE IF Head(ids) \in seen THEN FirstOccurrences(Tail(ids), seen)
    ELSE <<Head(ids)>> \o FirstOccurrences(Tail(ids), seen \cup {Head(ids)})

\* The ids in the order of their first discovery: a layer, then the ids
\* found from the nodes of the layer, node by node in the order of the layer
\* and, for one node, in the order of its prerequisite list.
RECURSIVE DiscoveryOrder(_, _, _)
DiscoveryOrder(nodeMap, layer, seen) ==
    IF layer = <<>> THEN <<>>
    ELSE LET found == Concatenation(
                 [i \in DOMAIN layer |->
                     IF layer[i] \in DOMAIN nodeMap
                     THEN nodeMap[layer[i]].prerequisites ELSE <<>>])
             further == FirstOccurrences(found, seen)
         IN layer \o DiscoveryOrder(nodeMap, further, seen \cup Range(further))

\* The transitive dependencies in breadth-first first-discovery order.
BreadthFirst(node, nodeMap) ==
    LET first == FirstOccurrences(node.prerequisites, {node.id})
    IN SelectSeq(DiscoveryOrder(nodeMap, first, {node.id} \cup Range(first)),
                 LAMBDA k : k \in DOMAIN nodeMap /\ k \notin Range(node.prerequisites))

\* C26: the list getTransitiveDependencies returns is in breadth-first
\* first-discovery order: a node fewer prerequisite hops away from the start
\* node is never behind a node more hops away, and nodes first found from
\* the same dequeued node are in the order of its prerequisite list.
C26_TransitiveInDiscoveryOrder ==
    op = "getTransitiveDependencies" =>
        /\ \A i, j \in DOMAIN result.list :
               i < j => Hops(arg, Index, result.list[i].id)
                            <= Hops(arg, Index, result.list[j].id)
        /\ IdsOf(result.list) = BreadthFirst(arg, Index)

\* A list of three: the first two found from one node, in the order of its
\* prerequisite list, the second a prerequisite of the first, and the third
\* one hop further away.
C26_Witness ==
    /\ op = "getTransitiveDependencies"
    /\ Len(result.list) = 3
    /\ \E k \in DOMAIN Index :
           Index[k].prerequisites = <<result.list[1].id, result.list[2].id>>
    /\ result.list[2].id \in Range(result.list[1].prerequisites)
    /\ Hops(arg, Index, result.list[2].id) < Hops(arg, Index, result.list[3].id)

\* The step is the part of an updateMapping call after its await.
IsResume == op' = "resumed" /\ inflight' # inflight

\* The step is the part of an updateMapping call before its await.
IsUpdateCall == op' = "updateMapping" /\ calls' # calls

\* The call the step has issued.
IssuedCall == calls'[Len(calls')]

\* The message of the error for a node id the graph does not have.
NotFoundMessage(nodeId) == "Node with id " \o nodeId \o " not found"

\* C27: a call of updateMapping with a node id that is not in the graph
\* holds an error result 'Node with id ... not found' that carries no graph;
\* when the call resumes, error is that message and graph and selectedNode
\* are what they were; a call made while graph is null changes nothing of
\* the hook and leaves nothing suspended.
C27_UnknownNodeSetsErrorOnly ==
    [][ /\ ( /\ IsUpdateCall
             /\ hook.graph # Null
             /\ IssuedCall.nodeId \notin IdSet(hook.graph.nodes) )
           => LET call == inflight'[Len(inflight')]
              IN /\ Len(inflight') = Len(inflight) + 1
                 /\ ~call.result.ok
                 /\ ~Has(call.result, "value")
                 /\ call.result.error.message = NotFoundMessage(IssuedCall.nodeId)
        /\ (IsResume /\ ~inflight[NextToResume].result.ok)
           => /\ hook'.error = [message |-> inflight[NextToResume].result.error.message]
              /\ hook'.graph = hook.graph
              /\ hook'.selectedNode = hook.selectedNode
        /\ (IsUpdateCall /\ hook.graph = Null)
           => hook' = hook /\ inflight' = inflight
      ]_vars

\* A call for the unknown node has resumed with a node selected, after a
\* call made before the graph was there.
C27_Witness ==
    /\ hook.error = [message |-> NotFoundMessage(DanglingId)]
    /\ hook.graph # Null
    /\ hook.selectedNode # Null
    /\ inflight = <<>>
    /\ \E i \in DOMAIN calls :
           calls[i].call = "updateMapping" /\ calls[i].graph = Null

\* C24: when a call updateMapping(nodeId, ...) resumes with success while
\* the selected node has the id nodeId, selectedNode becomes the node of
\* that id in the updated graph the hook now holds; when another node or
\* none is selected, selectedNode is what it was.
C24_SelectionFollowsUpdate ==
    [][ (IsResume /\ inflight[NextToResume].result.ok)
        => LET nodeId == inflight[NextToResume].nodeId
           IN IF hook.selectedNode # Null /\ hook.selectedNode.id = nodeId
              THEN hook'.selectedNode = FindNode(hook'.graph.nodes, nodeId)
              ELSE hook'.selectedNode = hook.selectedNode
      ]_vars

\* The calls of updateMapping made so far.
UpdatesIssued == SelectSeq(calls, LAMBDA c : c.call = "updateMapping")

\* Two calls of updateMapping were the last two calls made on the hook, for
\* different fields or different nodes, each on a graph that has its node,
\* and both have resumed; no response of a fetch has arrived since the
\* first of them.
TwoUpdatesDone ==
    /\ Len(UpdatesIssued) = 2
    /\ SubSeq(calls, Len(calls) - 1, Len(calls)) = UpdatesIssued
    /\ \A i \in 1..2 :
           /\ UpdatesIssued[i].graph # Null
           /\ UpdatesIssued[i].nodeId \in IdSet(UpdatesIssued[i].graph.nodes)
    /\ <<UpdatesIssued[1].nodeId, UpdatesIssued[1].fieldId>>
         # <<UpdatesIssued[2].nodeId, UpdatesIssued[2].fieldId>>
    /\ \A i \in DOMAIN inflight : inflight[i].kind # "update"

\* The graph holds what the call asked for: the stored descriptor, or no
\* mapping of the field after a call with null.
Holds(graph, call) ==
    MappingOf(FindNode(graph.nodes, call.nodeId), call.fieldId)
      = IF call.mapping = Null THEN Undefined ELSE StoredMapping(call.mapping)

\* C28: no mapping update is lost: after two successful calls of
\* updateMapping for different fields or nodes, issued and completed in any
\* interleaving, the graph of the hook holds the mappings of both.
C28_NoLostUpdate ==
    TwoUpdatesDone =>
        Holds(hook.graph, UpdatesIssued[1]) /\ Holds(hook.graph, UpdatesIssued[2])

\* The response the n-th call of loadGraph got, Undefined while its request
\* has not settled.
ResponseOf(n) ==
    IF \E i \in DOMAIN calls : calls[i].call = "settled" /\ calls[i].n = n
    THEN calls[CHOOSE i \in DOMAIN calls :
                   calls[i].call = "settled" /\ calls[i].n = n].response
    ELSE Undefined

\* loadGraph was called twice and nothing else, the second time before the
\* first request had settled, and both requests have settled.
OverlappingFetchesSettled ==
    /\ Len(calls) = 4
    /\ calls[1].call = "loadGraph"
    /\ calls[2].call = "loadGraph"
    /\ calls[3].call = "settled"
    /\ calls[4].call = "settled"

\* The state the hook is left in by a loadGraph call that got the response.
Reflects(response) ==
    /\ hook.isLoading = FALSE
    /\ IF response.ok
       THEN hook.graph = response.value /\ hook.error = Null
       ELSE hook.error = [message |-> response.error.message]

\* C29: when refetch is called while the first fetch is in flight, then
\* once both have settled, in either order, graph, error and isLoading are
\* those of the outcome of the fetch issued last.
C29_LastIssuedFetchWins ==
    OverlappingFetchesSettled => Reflects(ResponseOf(calls[2].n))

\* The step is the arrival of the response to the request of the mount.
InitialFetchSettles == op' = "settled" /\ calls' # calls /\ IssuedCall.n = 1

\* What the arrival of the first response leaves: the fetched graph and no
\* error, or the error and no graph; isLoading is false.
InitialFetchOutcome ==
    InitialFetchSettles =>
        /\ hook'.isLoading = FALSE
        /\ IF IssuedCall.response.ok
           THEN /\ hook'.graph = IssuedCall.response.value
                /\ hook'.error = Null
           ELSE /\ hook'.error = [message |-> IssuedCall.response.error.message]
                /\ hook'.graph = Null

\* After every call of loadGraph, isLoading is false at some later time.
LoadingEnds == [](op = "loadGraph" => <>(hook.isLoading = FALSE))

\* C23: the hook starts with isLoading true, graph null and error null;
\* when the first fetch settles isLoading is false and either graph is the
\* fetched graph and error is null, or error is set and graph is null; and,
\* every fetch settling, isLoading becomes false after every load or
\* refetch.
C23_LoadSettles ==
    /\ hook.isLoading = TRUE /\ hook.graph = Null /\ hook.error = Null
    /\ [][InitialFetchOutcome]_vars
    /\ LoadingEnds

====
